---- MODULE Spec2Model ----
(***************************************************************************)
(* Worker session state machine of the TikTok warm-up bot.                 *)
(*                                                                         *)
(*   WorkingStage  (src/src/stages/working.ts)   one bounded session       *)
(*   Worker        (src/src/stages/learning.ts)  initiating/learning/      *)
(*                                               working pipeline          *)
(*   UIDataPersistence (src/unnamed/part_008)    persisted learned UI      *)
(*                                                                         *)
(* Every device command and every ScreenAgent call is an input of the      *)
(* step that awaits it: it succeeds, fails or throws nondeterministically. *)
(***************************************************************************)
EXTENDS Integers, FiniteSets, Sequences, TLC

----------------------------------------------------------------------------
(* Bounds of the model *)

\* presets.control.maxHealthFailures is drawn from 1..MaxHealthFailuresCfg
MaxHealthFailuresCfg == 3
\* presets.control.healthCheckInterval is drawn from 1..MaxHealthInterval
MaxHealthInterval == 2
\* presets.interactions.dailyLimit is drawn from 1..MaxDailyLimit
MaxDailyLimit == 2
\* presets.session.videosPerSession is [n, n + 1] for an n up to MinVideos
MinVideos == 2
\* presets.control.maxConsecutiveErrors is drawn from 1..MaxConsecutiveErrorsCfg
MaxConsecutiveErrorsCfg == 2
\* stats.errors is only ever compared with 0; failures stop being injected
\* once it has reached MaxErrors
MaxErrors == 1
\* presets.session.maxSessionsPerDay is drawn from 1..MaxSessionsCfg
MaxSessionsCfg == 2
\* the Worker's session loop is cut after MaxSessionRuns sessions
MaxSessionRuns == 2
\* a comment text received by executeComment has up to MaxTextLen characters
MaxTextLen == 3
\* presets.comments.maxLength is drawn from 1..MaxCommentLength
MaxCommentLength == 2
\* assignProxiesToDevices gets up to MaxProxyDevices devices
MaxProxyDevices == 3
\* ... and a pool of up to MaxPool proxies
MaxPool == 2
\* a persistence client saves the data of learning runs 1..MaxClientRuns
MaxClientRuns == 2
\* the clock of the round-trip specification advances MaxTicks times
MaxTicks == 3

----------------------------------------------------------------------------
(* Program constants *)

\* performHealthCheck's own hard-coded threshold
HEALTH_INNER_MAX == 3
\* detectShadowBan consults the agent from this many likes on
SHADOW_BAN_MIN_LIKES == 20
\* UIDataPersistence.MAX_AGE_DAYS
MAX_AGE_DAYS == 30

Devices == {"devA", "devB"}
\* the device the modelled Worker drives
Self == "devA"

RequiredSlots == {"likeButton", "commentButton", "commentInputField", "commentSendButton"}
StandardSlots == RequiredSlots \cup {"followButton", "profileImage"}
Slots == StandardSlots \cup {"searchBar", "firstSearchResult"}

\* LearnedUIElements: slot -> 0 (absent), or k > 0 for coordinates produced
\* by the k-th learning run of this process, or PersistedRun for coordinates
\* that were already on disk when the process started
PersistedRun == -1
NoUI == [s \in Slots |-> 0]

\* coordinates of the slots in `found`, all produced by learning run `run`
UIOf(found, run) == [s \in Slots |-> IF s \in found THEN run ELSE 0]

\* the slot sets a learning result (or a stored entry) may report as found
FoundSets == {Slots, Slots \ {"likeButton"}}

Total(st) == st.likesGiven + st.commentsPosted + st.followsGiven

----------------------------------------------------------------------------
VARIABLES
  presets,               \* AutomationPresets, immutable for the run
  \* ---- WorkingStage (one instance per session)
  spc,                   \* position inside WorkingStage.execute
  stats,                 \* this.stats
  healthFailures,        \* this.healthFailures
  healthFailureExceeded, \* this.healthFailureExceeded
  needsTopicReSearch,    \* this.needsTopicReSearch
  sessionSize,           \* local of execute()
  shouldContinue,        \* local of execute()
  consecutiveErrors,     \* local of execute()
  decisions,             \* decisions of the current cycle still to execute
  pvResult,              \* value processVideo returned
  result,                \* value execute() returned
  \* ---- Worker
  wpc,                   \* position inside Worker.startAutomation
  currentStage,          \* this.currentStage
  isInitialized,         \* this.isInitialized
  learnedUI,             \* this.learnedUI
  wstats,                \* this.stats (cumulative)
  sessionCount,          \* local of startAutomation()
  learningRuns,          \* number of learning runs started so far
  wproxy,                \* this.proxy is configured; the proxy is set on the device
  shutdownPc,            \* Worker.shutdown: not called, returned or thrown
  \* ---- UIDataPersistence
  store,                 \* the storage document: device id -> entry
  now,                   \* Date.now(), in days
  \* ---- stand-alone operations
  client,                \* per device: a persistence call in progress
  comment,               \* executeComment: the text received and the text typed
  proxy,                 \* assignProxiesToDevices: the arguments and the Map returned
  scroll,                \* scrollToNextVideo: position, screenshots, commands issued
  interact,               \* interactWithScreen: the generateText run and the promise returned
  bot,                   \* TikTokBot.start: createWorkers and startAgentManagers
  act,                   \* executeLike / executeComment / executeFollow: position, commands issued
  \* ---- observation only (never read by the program)
  obs

sessionVars == <<spc, stats, healthFailures, healthFailureExceeded, needsTopicReSearch,
                 sessionSize, shouldContinue, consecutiveErrors, decisions, pvResult, result>>
workerVars == <<wpc, currentStage, isInitialized, learnedUI, wstats, sessionCount, learningRuns,
                wproxy, shutdownPc>>
storeVars == <<store, now>>
utilVars == <<client, comment, proxy, scroll, interact, bot, act>>
vars == <<presets, sessionVars, workerVars, storeVars, utilVars, obs>>


----------------------------------------------------------------------------
(* AutomationPresets *)

\* a probability p is the integer p * ChanceScale; a Math.random() draw in
\* [k/ChanceScale, (k+1)/ChanceScale) is the integer k
ChanceScale == 2
Chances == 0..ChanceScale
Rolls == 0..(ChanceScale - 1)

PresetsType ==
  [healthCheckInterval : 1..MaxHealthInterval,
   maxHealthFailures : 1..MaxHealthFailuresCfg,
   shadowBanInterval : 1..MaxHealthInterval,
   maxConsecutiveErrors : 1..MaxConsecutiveErrorsCfg,
   dailyLimit : 1..MaxDailyLimit,
   minVideos : 1..MinVideos,
   maxVideos : 2..(MinVideos + 1),
   maxSessionsPerDay : 1..MaxSessionsCfg,
   searchTopic : BOOLEAN,
   useAI : BOOLEAN,
   commentMaxLength : 1..MaxCommentLength,
   likeChance : Chances,
   commentChance : Chances,
   followChance : Chances]

----------------------------------------------------------------------------
(* WorkingStage *)

ZeroStats == [videosWatched |-> 0, likesGiven |-> 0, commentsPosted |-> 0,
              followsGiven |-> 0, errors |-> 0]

NoResult == [success |-> FALSE, videosWatched |-> 0, likesGiven |-> 0, commentsPosted |-> 0,
             followsGiven |-> 0, shouldContinue |-> FALSE, message |-> "none"]

\* the result object execute() builds from this.stats
ResultOf(st, success, cont, message) ==
  [success |-> success, videosWatched |-> st.videosWatched, likesGiven |-> st.likesGiven,
   commentsPosted |-> st.commentsPosted, followsGiven |-> st.followsGiven,
   shouldContinue |-> cont, message |-> message]

\* the fields of a freshly constructed WorkingStage and the locals of execute()
FreshSession ==
  /\ stats' = ZeroStats
  /\ healthFailures' = 0
  /\ healthFailureExceeded' = FALSE
  /\ needsTopicReSearch' = FALSE
  /\ sessionSize' = 0
  /\ shouldContinue' = TRUE
  /\ consecutiveErrors' = 0
  /\ decisions' = <<>>
  /\ pvResult' = TRUE
  /\ result' = NoResult

\* what the ScreenAgent can answer to the readiness task
ReadyAnswers == {"ready", "notReady", "throw"}

\* a readiness check without its try/catch: the throw of the agent call
\* leaves execute(), which C4 excludes
EnsureTikTokReadyUncaught(agent) ==
  IF agent = "ready" THEN "true" ELSE IF agent = "notReady" THEN "false" ELSE "throw"

\* ensureTikTokReady: result.success, and false when the agent call throws
EnsureTikTokReady(agent) == IF agent = "ready" THEN "true" ELSE "false"

\* execute(), step 0: confirm the app is ready, else return the failure result
ExecuteEnsureReady ==
  /\ spc = "ensureReady"
  /\ \E agent \in ReadyAnswers :
       LET ready == EnsureTikTokReady(agent) IN
       IF ready = "throw"
       THEN /\ spc' = "thrown"
            /\ UNCHANGED <<result, obs>>
       ELSE IF ready = "false"
       THEN /\ result' = ResultOf(ZeroStats, FALSE, FALSE, "Failed to ensure TikTok is ready for automation")
            /\ spc' = "returned"
            /\ obs' = [obs EXCEPT !.endCause = "notReady", !.hardFailure = "readiness"]
       ELSE /\ spc' = IF presets.searchTopic THEN "topicSearch" ELSE "pickSize"
            /\ UNCHANGED <<result, obs>>
  /\ UNCHANGED <<presets, utilVars, stats, healthFailures, healthFailureExceeded, needsTopicReSearch,
                 sessionSize, shouldContinue, consecutiveErrors, decisions, pvResult,
                 workerVars, storeVars>>

\* searchForTopic: true, and false when a device command throws
SearchForTopic(deviceOk) == IF deviceOk THEN "true" ELSE "false"

\* execute(), step 0.5: searchForTopic; a false return is only logged
ExecuteTopicSearch ==
  /\ spc = "topicSearch"
  /\ \E deviceOk \in BOOLEAN :
       spc' = IF SearchForTopic(deviceOk) = "throw" THEN "thrown" ELSE "pickSize"
  /\ UNCHANGED <<presets, utilVars, stats, healthFailures, healthFailureExceeded, needsTopicReSearch,
                 sessionSize, shouldContinue, consecutiveErrors, decisions, pvResult, result,
                 workerVars, storeVars, obs>>

\* execute(): draw the session target and enter the loop
PickSessionSize ==
  /\ spc = "pickSize"
  /\ \E n \in presets.minVideos..presets.maxVideos : sessionSize' = n
  /\ shouldContinue' = TRUE
  /\ consecutiveErrors' = 0
  /\ spc' = "pvBegin"
  /\ UNCHANGED <<presets, utilVars, stats, healthFailures, healthFailureExceeded, needsTopicReSearch,
                 decisions, pvResult, result, workerVars, storeVars, obs>>

\* processVideo: the periodic health check is due
HealthCheckDue(st) ==
  st.videosWatched > 0 /\ st.videosWatched % presets.healthCheckInterval = 0

\* processVideo: the shadow-ban check is due
ShadowBanCheckDue(st) ==
  st.videosWatched > 0 /\ st.videosWatched % presets.shadowBanInterval = 0

\* processVideo: the step after a health check that did not abort
AfterHealthCheck(st) == IF ShadowBanCheckDue(st) THEN "pvShadow" ELSE "pvDecide"

\* observation of the topic flow, recorded where `watch` is set: whether a
\* health check has reported recovery actions since the current cycle began,
\* and the steps with which processVideo began the current cycle, in order
NoTopicWatch == [watch |-> FALSE, recovered |-> FALSE, began |-> <<>>]

\* the observation after a health check that answered `outcome`
TopicSeen(t, checked, outcome) ==
  IF t.watch /\ checked /\ outcome = "fixed" THEN [t EXCEPT !.recovered = TRUE] ELSE t

\* a re-search at the start of every cycle, recovery or not: C28 requires
\* one re-search per recovery and none without
TopicReSearchAlways(ntr) == presets.searchTopic

\* processVideo: the topic has to be searched again
TopicReSearchDue(ntr) == ntr /\ presets.searchTopic

\* processVideo: the steps before the health check, in order
ProcessVideoBeginSteps(ntr, st) ==
  (IF TopicReSearchDue(ntr) THEN <<"searchForTopic">> ELSE <<>>)
    \o (IF st.videosWatched = 0 THEN <<>> ELSE <<"watchVideo">>)

\* processVideo, up to the health check: topic re-search and watch
ProcessVideoBegin ==
  /\ spc = "pvBegin"
  /\ needsTopicReSearch' = IF TopicReSearchDue(needsTopicReSearch) THEN FALSE
                           ELSE needsTopicReSearch
  /\ spc' = IF HealthCheckDue(stats) THEN "pvHealth" ELSE AfterHealthCheck(stats)
  /\ obs' = [obs EXCEPT !.cyclesStarted = @ + 1,
                        !.topic = IF @.watch
                                  THEN [@ EXCEPT !.recovered = FALSE,
                                                 !.began = ProcessVideoBeginSteps(
                                                             needsTopicReSearch, stats)]
                                  ELSE @]
  /\ UNCHANGED <<presets, utilVars, stats, healthFailures, healthFailureExceeded, sessionSize,
                 shouldContinue, consecutiveErrors, decisions, pvResult, result,
                 workerVars, storeVars>>

\* what the ScreenAgent can answer to the health-check task: success with no
\* action performed, success after recovery actions, success=false, or a throw
HealthOutcomes == {"ok", "fixed", "fail", "throw"}

\* performHealthCheck: the value returned and the fields it leaves behind
PerformHealthCheck(hf, hfe, ntr, outcome) ==
  CASE outcome = "throw" ->
         [ok |-> FALSE, healthFailures |-> hf, healthFailureExceeded |-> hfe,
          needsTopicReSearch |-> ntr]
    [] outcome = "fail" ->
         [ok |-> FALSE, healthFailures |-> hf + 1,
          healthFailureExceeded |-> (hfe \/ hf + 1 >= HEALTH_INNER_MAX),
          needsTopicReSearch |-> ntr]
    [] OTHER ->
         [ok |-> TRUE, healthFailures |-> 0, healthFailureExceeded |-> hfe,
          needsTopicReSearch |-> (ntr \/ outcome = "fixed")]

\* an abort test that is off by one (> for >=): with it the cycle goes on
\* when the count has just reached maxHealthFailures, which C24 excludes
HealthAbortLate(ok, failed) == ~ok /\ failed > presets.maxHealthFailures

\* processVideo, step 2: the periodic check failed and the count has reached
\* maxHealthFailures
HealthAbort(ok, failed) == ~ok /\ failed >= presets.maxHealthFailures

\* processVideo, step 2: the periodic health check and its failure counting
PeriodicHealthCheck ==
  /\ spc = "pvHealth"
  /\ \E outcome \in HealthOutcomes :
       LET h == PerformHealthCheck(healthFailures, healthFailureExceeded,
                                   needsTopicReSearch, outcome)
           failed == h.healthFailures + 1
           abort == HealthAbort(h.ok, failed)
       IN /\ healthFailures' = IF h.ok THEN 0 ELSE failed
          /\ healthFailureExceeded' = (h.healthFailureExceeded \/ abort)
          /\ needsTopicReSearch' = h.needsTopicReSearch
          /\ pvResult' = IF abort THEN FALSE ELSE pvResult
          /\ spc' = IF abort THEN "loopCheck" ELSE AfterHealthCheck(stats)
          /\ obs' = [obs EXCEPT !.streak = IF h.ok THEN 0 ELSE @ + 1,
                                !.cyclesAborted = IF abort THEN @ + 1 ELSE @,
                                !.endCause = IF abort THEN "health" ELSE @,
                                !.topic = TopicSeen(@, TRUE, outcome)]
  /\ UNCHANGED <<presets, utilVars, stats, sessionSize, shouldContinue, consecutiveErrors, decisions,
                 result, workerVars, storeVars>>

\* what the ScreenAgent can answer to the shadow-ban task
ShadowBanAnswers == {"banned", "clear", "throw"}

\* a detection that consults the agent whatever the number of likes: C26
\* requires at least SHADOW_BAN_MIN_LIKES likes
DetectShadowBanAnyLikes(likes, answer) == answer = "banned"

\* detectShadowBan: the agent is consulted from SHADOW_BAN_MIN_LIKES likes on;
\* a throwing agent call counts as not banned
DetectShadowBan(likes, answer) == likes >= SHADOW_BAN_MIN_LIKES /\ answer = "banned"

\* processVideo: shadow-ban detection; a positive result only inserts a delay
ShadowBanCheck ==
  /\ spc = "pvShadow"
  /\ \E answer \in ShadowBanAnswers :
       obs' = [obs EXCEPT !.shadowDelays = IF DetectShadowBan(stats.likesGiven, answer)
                                           THEN @ + 1 ELSE @]
  /\ spc' = "pvDecide"
  /\ UNCHANGED <<presets, utilVars, stats, healthFailures, healthFailureExceeded, needsTopicReSearch,
                 sessionSize, shouldContinue, consecutiveErrors, decisions, pvResult, result,
                 workerVars, storeVars>>

\* no dice rolled, or the decisions they gave are being carried out
NoRolls == [drawn |-> FALSE, like |-> 0, comment |-> 0, follow |-> 0]

\* a decision that lets a draw equal to the chance fire: with it a chance of
\* 0 fires, which C13 excludes
DecideAtMost(likeRoll, commentRoll, followRoll) ==
  LET l == IF likeRoll <= presets.likeChance THEN <<"like">> ELSE <<>>
      c == IF commentRoll <= presets.commentChance THEN <<"comment">> ELSE <<>>
      f == IF followRoll <= presets.followChance THEN <<"follow">> ELSE <<>>
      d == l \o c \o f
  IN IF Len(d) = 0 THEN <<"next_video">> ELSE d

\* decideAction as a function of the three draws
Decide(likeRoll, commentRoll, followRoll) ==
  LET l == IF likeRoll < presets.likeChance THEN <<"like">> ELSE <<>>
      c == IF commentRoll < presets.commentChance THEN <<"comment">> ELSE <<>>
      f == IF followRoll < presets.followChance THEN <<"follow">> ELSE <<>>
      d == l \o c \o f
  IN IF Len(d) = 0 THEN <<"next_video">> ELSE d

\* processVideo, step 3: roll the dice
DecideAction ==
  /\ spc = "pvDecide"
  /\ \E likeRoll \in Rolls, commentRoll \in Rolls, followRoll \in Rolls :
       /\ decisions' = Decide(likeRoll, commentRoll, followRoll)
       /\ obs' = IF obs.watchDice
                 THEN [obs EXCEPT !.rolls = [drawn |-> TRUE, like |-> likeRoll,
                                             comment |-> commentRoll, follow |-> followRoll]]
                 ELSE obs
  /\ spc' = "pvActions"
  /\ UNCHANGED <<presets, utilVars, stats, healthFailures, healthFailureExceeded, needsTopicReSearch,
                 sessionSize, shouldContinue, consecutiveErrors, pvResult, result,
                 workerVars, storeVars>>

\* the for-loop of processVideo is at a decision of this kind
AtDecision(kind) == spc = "pvActions" /\ decisions # <<>> /\ Head(decisions) = kind

\* a like whose failure is left to the catch of processVideo: the error is
\* counted, the rest of the cycle is skipped; C23 requires the remaining
\* actions, the scroll and the count
ExecuteLikeAbortsCycle ==
  /\ AtDecision("like")
  /\ obs' = [obs EXCEPT !.rolls = NoRolls]
  /\ IF learnedUI["likeButton"] = 0
     THEN /\ decisions' = Tail(decisions)
          /\ UNCHANGED <<stats, spc, pvResult>>
     ELSE \E tapOk \in BOOLEAN :
            /\ tapOk \/ stats.errors < MaxErrors
            /\ stats' = IF tapOk THEN [stats EXCEPT !.likesGiven = @ + 1]
                        ELSE [stats EXCEPT !.errors = @ + 1]
            /\ decisions' = IF tapOk THEN Tail(decisions) ELSE <<>>
            /\ spc' = IF tapOk THEN spc ELSE "loopCheck"
            /\ pvResult' = IF tapOk THEN pvResult ELSE TRUE
  /\ UNCHANGED <<presets, utilVars, healthFailures, healthFailureExceeded, needsTopicReSearch,
                 sessionSize, shouldContinue, consecutiveErrors, result,
                 workerVars, storeVars>>

\* executeLike
ExecuteLike ==
  /\ AtDecision("like")
  /\ IF learnedUI["likeButton"] = 0
     THEN UNCHANGED stats
     ELSE \E tapOk \in BOOLEAN :
            /\ tapOk \/ stats.errors < MaxErrors
            /\ stats' = IF tapOk THEN [stats EXCEPT !.likesGiven = @ + 1]
                        ELSE [stats EXCEPT !.errors = @ + 1]
  /\ decisions' = Tail(decisions)
  /\ obs' = [obs EXCEPT !.rolls = NoRolls]
  /\ UNCHANGED <<presets, utilVars, spc, healthFailures, healthFailureExceeded, needsTopicReSearch,
                 sessionSize, shouldContinue, consecutiveErrors, pvResult, result,
                 workerVars, storeVars>>

\* how a comment attempt can go once the coordinates are known:
\*   abandon    the agent reports the screen is not a normal feed (AI path only)
\*   deviceFail a tap / text input / back navigation throws before the comment counts
\*   post       the comment is typed and sent
CommentPaths == IF presets.useAI THEN {"abandon", "deviceFail", "post"}
                ELSE {"deviceFail", "post"}

\* executeComment
ExecuteComment ==
  /\ AtDecision("comment")
  /\ IF \E s \in {"commentButton", "commentInputField", "commentSendButton"} : learnedUI[s] = 0
     THEN /\ obs' = [obs EXCEPT !.rolls = NoRolls]
          /\ UNCHANGED <<stats, healthFailures, healthFailureExceeded, needsTopicReSearch>>
     ELSE \E path \in CommentPaths, verified \in BOOLEAN, outcome \in HealthOutcomes,
             closeOk \in BOOLEAN :
            LET h == IF path = "post" /\ ~verified
                     THEN PerformHealthCheck(healthFailures, healthFailureExceeded,
                                             needsTopicReSearch, outcome)
                     ELSE [ok |-> TRUE, healthFailures |-> healthFailures,
                           healthFailureExceeded |-> healthFailureExceeded,
                           needsTopicReSearch |-> needsTopicReSearch]
                threw == path = "deviceFail" \/ (path = "post" /\ ~closeOk)
            IN /\ threw => stats.errors < MaxErrors
               /\ stats' = [stats EXCEPT
                              !.commentsPosted = IF path = "post" THEN @ + 1 ELSE @,
                              !.errors = IF threw THEN @ + 1 ELSE @]
               /\ healthFailures' = h.healthFailures
               /\ healthFailureExceeded' = h.healthFailureExceeded
               /\ needsTopicReSearch' = h.needsTopicReSearch
               /\ obs' = [obs EXCEPT !.streak = IF path = "post" /\ ~verified /\ h.ok
                                               THEN 0 ELSE @,
                                    !.rolls = NoRolls,
                                    !.topic = TopicSeen(@, path = "post" /\ ~verified,
                                                        outcome)]
  /\ decisions' = Tail(decisions)
  /\ UNCHANGED <<presets, utilVars, spc, sessionSize, shouldContinue, consecutiveErrors, pvResult,
                 result, workerVars, storeVars>>

\* executeFollow
ExecuteFollow ==
  /\ AtDecision("follow")
  /\ IF learnedUI["followButton"] = 0
     THEN UNCHANGED stats
     ELSE \E flowOk \in BOOLEAN :
            /\ flowOk \/ stats.errors < MaxErrors
            /\ stats' = IF flowOk THEN [stats EXCEPT !.followsGiven = @ + 1]
                        ELSE [stats EXCEPT !.errors = @ + 1]
  /\ decisions' = Tail(decisions)
  /\ obs' = [obs EXCEPT !.rolls = NoRolls]
  /\ UNCHANGED <<presets, utilVars, spc, healthFailures, healthFailureExceeded, needsTopicReSearch,
                 sessionSize, shouldContinue, consecutiveErrors, pvResult, result,
                 workerVars, storeVars>>

\* the next_video marker: nothing to execute
NextVideoMarker ==
  /\ AtDecision("next_video")
  /\ decisions' = Tail(decisions)
  /\ obs' = [obs EXCEPT !.rolls = NoRolls]
  /\ UNCHANGED <<presets, utilVars, spc, stats, healthFailures, healthFailureExceeded,
                 needsTopicReSearch, sessionSize, shouldContinue, consecutiveErrors,
                 pvResult, result, workerVars, storeVars>>

\* scrollToNextVideo: best effort, a throwing device command counts an error
ScrollToNextVideo ==
  /\ spc = "pvActions"
  /\ decisions = <<>>
  /\ \E scrollOk \in BOOLEAN :
       /\ scrollOk \/ stats.errors < MaxErrors
       /\ stats' = IF scrollOk THEN stats ELSE [stats EXCEPT !.errors = @ + 1]
  /\ spc' = "pvEnd"
  /\ UNCHANGED <<presets, utilVars, healthFailures, healthFailureExceeded, needsTopicReSearch,
                 sessionSize, shouldContinue, consecutiveErrors, decisions, pvResult,
                 result, workerVars, storeVars, obs>>

\* processVideo, step 5: the counter of a completed cycle
CountVideo(st) == [st EXCEPT !.videosWatched = @ + 1]

\* a daily-limit test that looks at the likes only: comments and follows
\* then go on past the limit, which C37 excludes
DailyLimitOnLikes(st) == st.likesGiven >= presets.dailyLimit

\* a daily-limit test that stops one action late: C14 requires the stop at
\* exactly dailyLimit
DailyLimitExceeded(st) == Total(st) > presets.dailyLimit

\* processVideo's daily-limit test
DailyLimitReached(st) == Total(st) >= presets.dailyLimit

\* processVideo, steps 5 and on: count the video, test the daily limit
ProcessVideoEnd ==
  /\ spc = "pvEnd"
  /\ stats' = CountVideo(stats)
  /\ pvResult' = ~DailyLimitReached(stats')
  /\ spc' = "loopCheck"
  /\ obs' = [obs EXCEPT !.endCause = IF DailyLimitReached(stats') THEN "daily" ELSE @]
  /\ UNCHANGED <<presets, utilVars, healthFailures, healthFailureExceeded, needsTopicReSearch,
                 sessionSize, shouldContinue, consecutiveErrors, decisions, result,
                 workerVars, storeVars>>

\* a target test that is off by one (> for >=): with it a session watches
\* one video more than its target, which C3 excludes
TargetReachedStrict(st, size) == st.videosWatched > size

\* execute(): the session target is reached
TargetReached(st, size) == st.videosWatched >= size

\* execute(): the body of the while loop after processVideo returned
ExecuteLoopStep ==
  /\ spc = "loopCheck"
  /\ IF ~pvResult
     THEN /\ shouldContinue' = FALSE
          /\ spc' = "finish"
          /\ UNCHANGED <<consecutiveErrors, obs>>
     ELSE IF TargetReached(stats, sessionSize)
     THEN /\ spc' = "finish"
          /\ obs' = [obs EXCEPT !.endCause = "target"]
          /\ UNCHANGED <<shouldContinue, consecutiveErrors>>
     ELSE IF stats.errors > 0
     THEN IF consecutiveErrors + 1 >= presets.maxConsecutiveErrors
          THEN /\ consecutiveErrors' = consecutiveErrors + 1
               /\ shouldContinue' = FALSE
               /\ spc' = "finish"
               /\ obs' = [obs EXCEPT !.endCause = "errors"]
          ELSE /\ consecutiveErrors' = consecutiveErrors + 1
               /\ spc' = "pvBegin"
               /\ UNCHANGED <<shouldContinue, obs>>
     ELSE /\ consecutiveErrors' = 0
          /\ spc' = "pvBegin"
          /\ UNCHANGED <<shouldContinue, obs>>
  /\ UNCHANGED <<presets, utilVars, stats, healthFailures, healthFailureExceeded, needsTopicReSearch,
                 sessionSize, decisions, pvResult, result, workerVars, storeVars>>

\* execute(): the result returned once the loop is left
SessionResult(st, hfe, cont) ==
  IF hfe THEN ResultOf(st, FALSE, FALSE, "healthFailureExceeded")
  ELSE IF ~cont /\ DailyLimitReached(st) THEN ResultOf(st, TRUE, FALSE, "dailyLimitReached")
  ELSE ResultOf(st, TRUE, cont, "Session completed")

\* observation: the counters a returning session adds to the total of the
\* counters returned so far
SumOfReturned(total, r) ==
  [videosWatched |-> total.videosWatched + r.videosWatched,
   likesGiven |-> total.likesGiven + r.likesGiven,
   commentsPosted |-> total.commentsPosted + r.commentsPosted,
   followsGiven |-> total.followsGiven + r.followsGiven,
   errors |-> 0]

\* execute(): return
ExecuteReturn ==
  /\ spc = "finish"
  /\ result' = SessionResult(stats, healthFailureExceeded, shouldContinue)
  /\ spc' = "returned"
  /\ obs' = [obs EXCEPT !.returnedTotal = SumOfReturned(@, result')]
  /\ UNCHANGED <<presets, utilVars, stats, healthFailures, healthFailureExceeded, needsTopicReSearch,
                 sessionSize, shouldContinue, consecutiveErrors, decisions, pvResult,
                 workerVars, storeVars>>

SessionNext ==
  \/ ExecuteEnsureReady
  \/ ExecuteTopicSearch
  \/ PickSessionSize
  \/ ProcessVideoBegin
  \/ PeriodicHealthCheck
  \/ ShadowBanCheck
  \/ DecideAction
  \/ ExecuteLike
  \/ ExecuteComment
  \/ ExecuteFollow
  \/ NextVideoMarker
  \/ ScrollToNextVideo
  \/ ProcessVideoEnd
  \/ ExecuteLoopStep
  \/ ExecuteReturn


----------------------------------------------------------------------------
(* UIDataPersistence.  `store` is the storage document as loadStorageData
   yields it: a file that is missing or cannot be parsed is the document
   without entries. *)

\* a key of the storage document without an entry
NoEntry == [present |-> FALSE, learnedUI |-> NoUI, timestamp |-> 0]

\* StoredUIData written at time t
EntryOf(ui, t) == [present |-> TRUE, learnedUI |-> ui, timestamp |-> t]

\* a validity test without the age limit: with it an expired entry is
\* loaded and learning is skipped, which C10 excludes
IsDataValidAnyAge(entry, t) == t - entry.timestamp >= 0

\* isDataValid: not older than MAX_AGE_DAYS
IsDataValid(entry, t) == t - entry.timestamp <= MAX_AGE_DAYS

\* saveStorageData: the document on disk after the write, which may fail
SaveStorageData(old, new, writeOk) == IF writeOk THEN new ELSE old

\* a load that answers null for an expired entry and leaves it in the
\* document: C11 requires the purge
LoadDeviceUIDataKeepsExpired(doc, id, t, writeOk) ==
  IF doc[id].present /\ t - doc[id].timestamp <= MAX_AGE_DAYS
  THEN [found |-> TRUE, learnedUI |-> doc[id].learnedUI, doc |-> doc]
  ELSE [found |-> FALSE, learnedUI |-> NoUI, doc |-> doc]

\* loadDeviceUIData: the value returned (found = FALSE for null) and the
\* document left behind (an expired entry is purged; a failed write of the
\* purged document is caught)
LoadDeviceUIData(doc, id, t, writeOk) ==
  IF ~doc[id].present
  THEN [found |-> FALSE, learnedUI |-> NoUI, doc |-> doc]
  ELSE IF ~IsDataValid(doc[id], t)
  THEN [found |-> FALSE, learnedUI |-> NoUI,
        doc |-> SaveStorageData(doc, [doc EXCEPT ![id] = NoEntry], writeOk)]
  ELSE [found |-> TRUE, learnedUI |-> doc[id].learnedUI, doc |-> doc]

\* saveDeviceUIData: the document left behind; the error of a failed write
\* is rethrown and swallowed by Worker.saveUIData
SaveDeviceUIData(doc, id, ui, t, writeOk) ==
  SaveStorageData(doc, [doc EXCEPT ![id] = EntryOf(ui, t)], writeOk)

\* deleteDeviceUIData: the document left behind; a failed write is caught
DeleteDeviceUIData(doc, id, writeOk) ==
  IF doc[id].present THEN SaveStorageData(doc, [doc EXCEPT ![id] = NoEntry], writeOk)
  ELSE doc

----------------------------------------------------------------------------
(* The comment text: sanitizeTextForADB and its callers in executeComment.
   A text is a sequence of characters; one character stands for each class
   the regular expressions of the code tell apart. *)

LowerLetters == {"a", "z"}
\* "Z": an upper-case letter (its lower case is "z"); "!": a digit, a
\* punctuation mark, an emoji; "\t": white space other than the space
Characters == LowerLetters \cup {"Z", " ", "!", "\t"}
WhiteSpace == {" ", "\t"}

\* the texts of up to n characters
TextsUpTo(n) == UNION {[1..k -> Characters] : k \in 0..n}

\* String.prototype.toLowerCase
ToLowerCase(t) == [i \in 1..Len(t) |-> IF t[i] = "Z" THEN "z" ELSE t[i]]

KeptCharacter(c) == c \in LowerLetters \cup {" "}

\* .replace(/[^a-z ]/g, '')
KeepLettersAndSpaces(t) == SelectSeq(t, KeptCharacter)

\* .replace(/\s+/g, ' ')
RECURSIVE CollapseWhiteSpace(_)
CollapseWhiteSpace(t) ==
  IF t = <<>> THEN <<>>
  ELSE IF Head(t) \notin WhiteSpace THEN <<Head(t)>> \o CollapseWhiteSpace(Tail(t))
  ELSE IF Len(t) > 1 /\ t[2] \in WhiteSpace THEN CollapseWhiteSpace(Tail(t))
  ELSE <<" ">> \o CollapseWhiteSpace(Tail(t))

RECURSIVE TrimStart(_)
TrimStart(t) ==
  IF t # <<>> /\ Head(t) \in WhiteSpace THEN TrimStart(Tail(t)) ELSE t

RECURSIVE TrimEnd(_)
TrimEnd(t) ==
  IF t # <<>> /\ t[Len(t)] \in WhiteSpace THEN TrimEnd(SubSeq(t, 1, Len(t) - 1)) ELSE t

\* String.prototype.trim
Trim(t) == TrimEnd(TrimStart(t))

\* sanitizeTextForADB
SanitizeTextForADB(text) == Trim(CollapseWhiteSpace(KeepLettersAndSpaces(ToLowerCase(text))))

\* String.prototype.slice(0, n)
Slice(t, n) == SubSeq(t, 1, IF n < Len(t) THEN n ELSE Len(t))

\* executeComment: the text handed to inputText.  `raw` is the agent's
\* commentText on the AI path and the drawn template on the template path
\* (useAI off, or the agent call thrown)
CommentText(raw, viaAI, maxLength) ==
  IF viaAI THEN Slice(SanitizeTextForADB(raw), maxLength) ELSE SanitizeTextForADB(raw)

\* no comment typed yet
NoComment == [raw |-> <<>>, text |-> <<>>, viaAI |-> FALSE, typed |-> FALSE]

\* executeComment from the choice of the text to deviceManager.inputText
TypeComment ==
  /\ ~comment.typed
  /\ \E agentOk \in BOOLEAN :
       LET viaAI == presets.useAI /\ agentOk IN
       comment' = [comment EXCEPT !.viaAI = viaAI,
                                  !.text = CommentText(comment.raw, viaAI,
                                                       presets.commentMaxLength),
                                  !.typed = TRUE]
  /\ UNCHANGED <<presets, sessionVars, workerVars, storeVars, client, proxy, scroll, interact, bot, act, obs>>

----------------------------------------------------------------------------
(* assignProxiesToDevices.  Devices are 1..MaxProxyDevices, the proxies of
   the pool are numbered from 1, 0 is "no proxy". *)

ProxyDevices == 1..MaxProxyDevices

\* the proxy of every explicit mapping, distinct from the pool's
MappedProxy == MaxPool + 1

\* the sequences of distinct devices
DeviceLists ==
  {ids \in UNION {[1..k -> ProxyDevices] : k \in 0..MaxProxyDevices} :
     \A i, j \in 1..Len(ids) : i # j => ids[i] # ids[j]}

\* ProxySettings; an absent pool is the empty pool, absent deviceMappings
\* map no device
ProxySettingsType ==
  [enabled : BOOLEAN,
   pool : UNION {[1..k -> 1..MaxPool] : k \in 0..MaxPool},
   deviceMappings : [ProxyDevices -> {0, MappedProxy}]]

\* the first loop: explicit mappings
RECURSIVE ExplicitMappings(_, _, _)
ExplicitMappings(ids, settings, assignments) ==
  IF ids = <<>> THEN assignments
  ELSE ExplicitMappings(Tail(ids), settings,
         IF settings.deviceMappings[Head(ids)] # 0
         THEN [assignments EXCEPT ![Head(ids)] = settings.deviceMappings[Head(ids)]]
         ELSE assignments)

\* the second loop: round-robin over the pool for devices still without
RECURSIVE RoundRobin(_, _, _, _)
RoundRobin(ids, pool, assignments, poolIndex) ==
  IF ids = <<>> THEN assignments
  ELSE IF assignments[Head(ids)] # 0
  THEN RoundRobin(Tail(ids), pool, assignments, poolIndex)
  ELSE RoundRobin(Tail(ids), pool,
         [assignments EXCEPT ![Head(ids)] = pool[(poolIndex % Len(pool)) + 1]],
         poolIndex + 1)

\* the number of devices that have an assignment (Map.size)
MapSize(assignments) == Cardinality({d \in ProxyDevices : assignments[d] # 0})

\* an assignment in which every device, mapped or not, takes a turn of the
\* pool: C16 requires that mapped devices consume no pool slot
AssignProxiesByPosition(deviceIds, settings) ==
  LET none == [d \in ProxyDevices |-> 0]
      mapped == ExplicitMappings(deviceIds, settings, none)
  IN IF ~settings.enabled THEN none
     ELSE IF MapSize(mapped) = Len(deviceIds) THEN mapped
     ELSE IF Len(settings.pool) = 0 THEN mapped
     ELSE [d \in ProxyDevices |->
             IF mapped[d] # 0 THEN mapped[d]
             ELSE IF \E i \in 1..Len(deviceIds) : deviceIds[i] = d
             THEN LET i == CHOOSE i \in 1..Len(deviceIds) : deviceIds[i] = d
                  IN settings.pool[((i - 1) % Len(settings.pool)) + 1]
             ELSE 0]

\* assignProxiesToDevices: the Map returned, 0 for a device without a key
AssignProxiesToDevices(deviceIds, settings) ==
  LET none == [d \in ProxyDevices |-> 0]
      mapped == ExplicitMappings(deviceIds, settings, none)
  IN IF ~settings.enabled THEN none
     ELSE IF MapSize(mapped) = Len(deviceIds) THEN mapped
     ELSE IF Len(settings.pool) = 0 THEN mapped
     ELSE RoundRobin(deviceIds, settings.pool, mapped, 0)

\* assignProxiesToDevices not called yet
NoProxyRun ==
  [deviceIds |-> <<>>, settings |-> [enabled |-> FALSE, pool |-> <<>>,
                                     deviceMappings |-> [d \in ProxyDevices |-> 0]],
   assignments |-> [d \in ProxyDevices |-> 0], assigned |-> FALSE]

\* TikTokBot start-up: this.proxyAssignments = assignProxiesToDevices(...)
AssignProxies ==
  /\ ~proxy.assigned
  /\ proxy' = [proxy EXCEPT !.assignments = AssignProxiesToDevices(proxy.deviceIds,
                                                                   proxy.settings),
                            !.assigned = TRUE]
  /\ UNCHANGED <<presets, sessionVars, workerVars, storeVars, client, comment, scroll, interact, bot, act, obs>>

----------------------------------------------------------------------------
(* Callers of UIDataPersistence.  A call runs in two steps, separated by the
   awaits of the code: the read of the whole document (with the change of
   the caller's own key, made on the copy), and the write of the whole copy.
   A call that changes nothing returns after the read. *)

\* no call made yet.  `mine` is an observation: the entry this device's own
\* last completed update left for its key, and the call that made it (save,
\* delete, or load for the purge of an expired entry)
IdleClient ==
  [pc |-> "idle", op |-> "none", storage |-> [d \in Devices |-> NoEntry],
   found |-> FALSE, learnedUI |-> NoUI, failed |-> FALSE,
   mine |-> [known |-> FALSE, entry |-> NoEntry, by |-> "none"]]

\* the data a client passes to saveDeviceUIData
ClientData == {UIOf(Slots, k) : k \in 1..MaxClientRuns}

ClientOps == {"save", "load", "delete"}

\* the copy of the document a call is about to write back
ChangedStorage(op, storage, id, ui, t) ==
  CASE op = "save" -> SaveDeviceUIData(storage, id, ui, t, TRUE)
    [] op = "load" -> LoadDeviceUIData(storage, id, t, TRUE).doc
    [] OTHER -> DeleteDeviceUIData(storage, id, TRUE)

\* a call up to its write: loadStorageData, then the change of storage[id]
ClientRead(id) ==
  /\ client[id].pc = "idle"
  /\ \E op \in ClientOps, ui \in ClientData :
       LET storage == store
           changed == ChangedStorage(op, storage, id, ui, now)
           loaded == LoadDeviceUIData(storage, id, now, TRUE)
           writes == op = "save" \/ changed # storage
       IN client' = [client EXCEPT ![id] =
            [@ EXCEPT !.pc = IF writes THEN "write" ELSE "idle",
                      !.op = op,
                      !.storage = IF writes THEN changed ELSE IdleClient.storage,
                      !.found = (op = "load" /\ loaded.found),
                      !.learnedUI = IF op = "load" THEN loaded.learnedUI ELSE NoUI,
                      !.failed = FALSE,
                      !.mine = IF op = "delete" /\ ~writes
                               THEN [known |-> TRUE, entry |-> NoEntry, by |-> "delete"] ELSE @]]
  /\ UNCHANGED <<presets, sessionVars, workerVars, storeVars, comment, proxy, scroll, interact, bot, act, obs>>

\* the end of a call: saveStorageData of the copy; only saveDeviceUIData
\* lets the error of a failed write out
ClientWrite(id) ==
  /\ client[id].pc = "write"
  /\ \E writeOk \in BOOLEAN :
       /\ store' = SaveStorageData(store, client[id].storage, writeOk)
       /\ client' = [client EXCEPT ![id] =
            [@ EXCEPT !.pc = "idle",
                      !.storage = IdleClient.storage,
                      !.failed = ~writeOk,
                      !.mine = IF ~writeOk THEN @
                               ELSE [known |-> TRUE, entry |-> client[id].storage[id],
                                     by |-> client[id].op]]]
  /\ UNCHANGED <<presets, sessionVars, workerVars, now, comment, proxy, scroll, interact, bot, act, obs>>

\* the clock ticks: a day or a whole retention window passes
ClockTicks(t) == (t \div MAX_AGE_DAYS) + (t % MAX_AGE_DAYS)

\* Date.now() advances
Tick ==
  /\ ClockTicks(now) < MaxTicks
  /\ \E days \in {1, MAX_AGE_DAYS} : now' = now + days
  /\ UNCHANGED <<presets, sessionVars, workerVars, store, utilVars, obs>>

\* loadStorageData: the document read, and the document without entries
\* when the file cannot be read or parsed
LoadStorageData(doc, readOk) == IF readOk THEN doc ELSE [d \in Devices |-> NoEntry]

\* one whole call of saveDeviceUIData, loadDeviceUIData or deleteDeviceUIData
\* with nothing running in between: the read of the document, which may
\* fail, the change of the caller's key on the copy, and the write of the
\* copy, which may fail
ClientCall(id) ==
  /\ client[id].pc = "idle"
  /\ \E op \in ClientOps, ui \in ClientData, readOk \in BOOLEAN, writeOk \in BOOLEAN :
       LET storage == LoadStorageData(store, readOk)
           changed == ChangedStorage(op, storage, id, ui, now)
           loaded == LoadDeviceUIData(storage, id, now, TRUE)
           writes == op = "save" \/ changed # storage
       IN /\ store' = IF writes THEN SaveStorageData(store, changed, writeOk) ELSE store
          /\ client' = [client EXCEPT ![id] =
               [@ EXCEPT !.op = op,
                         !.found = (op = "load" /\ loaded.found),
                         !.learnedUI = IF op = "load" THEN loaded.learnedUI ELSE NoUI,
                         !.failed = (writes /\ ~writeOk),
                         !.mine = IF writes /\ ~writeOk THEN @
                                  ELSE [known |-> TRUE, entry |-> changed[id], by |-> op]]]
  /\ UNCHANGED <<presets, sessionVars, workerVars, now, comment, proxy, scroll, interact, bot,
                 act, obs>>

\* the calls of one device, one after the other, and the clock
PartitionNext ==
  \/ ClientCall(Self)
  \/ Tick

RoundTripNext ==
  \/ ClientRead(Self)
  \/ ClientWrite(Self)
  \/ Tick

ConcurrentNext ==
  \/ \E id \in Devices : ClientRead(id)
  \/ \E id \in Devices : ClientWrite(id)

----------------------------------------------------------------------------
(* Worker *)

\* hasLearnedUI: the four basic slots are present
HasLearnedUI(ui) ==
  /\ ui["likeButton"] # 0
  /\ ui["commentButton"] # 0
  /\ ui["commentInputField"] # 0
  /\ ui["commentSendButton"] # 0

\* the catch block of startAutomation: stage 'error', the error is rethrown
PipelineThrows ==
  /\ currentStage' = "error"
  /\ wpc' = "thrown"

\* initialize: proxy set-up and app detection (either may throw; the proxy
\* may be on the device when the detection throws), then the persisted UI of
\* this device is loaded
Initialize ==
  /\ wpc = "created"
  /\ \E setupOk \in BOOLEAN, proxySet \in BOOLEAN, writeOk \in BOOLEAN :
       /\ ~wproxy.configured => ~proxySet
       /\ (wproxy.configured /\ setupOk) => proxySet
       /\ wproxy' = [wproxy EXCEPT !.onDevice = proxySet]
       /\ IF ~setupOk
          THEN /\ PipelineThrows
               /\ UNCHANGED <<isInitialized, learnedUI, store>>
          ELSE LET loaded == LoadDeviceUIData(store, Self, now, writeOk) IN
               /\ store' = loaded.doc
               /\ learnedUI' = IF loaded.found THEN loaded.learnedUI ELSE learnedUI
               /\ currentStage' = IF loaded.found THEN "working" ELSE "initiating"
               /\ isInitialized' = TRUE
               /\ wpc' = "launch"
  /\ UNCHANGED <<presets, utilVars, sessionVars, wstats, sessionCount, learningRuns, now, obs,
                 shutdownPc>>

\* startAutomation, step 2: runInitiatingStage; a failed launch is thrown
LaunchApp ==
  /\ wpc = "launch"
  /\ \E launchOk \in BOOLEAN :
       IF launchOk
       THEN /\ currentStage' = "initiating"
            /\ wpc' = "learnDecide"
       ELSE PipelineThrows
  /\ UNCHANGED <<presets, utilVars, wproxy, shutdownPc, sessionVars, isInitialized, learnedUI, wstats, sessionCount,
                 learningRuns, storeVars, obs>>

\* startAutomation, step 3: learn unless the basic slots are already known
DecideLearning ==
  /\ wpc = "learnDecide"
  /\ IF HasLearnedUI(learnedUI)
     THEN /\ currentStage' = "working"
          /\ wpc' = "loopTop"
          /\ obs' = [obs EXCEPT !.learnDecision = "skipped"]
     ELSE /\ wpc' = "learn"
          /\ obs' = [obs EXCEPT !.learnDecision = "learn"]
          /\ UNCHANGED currentStage
  /\ UNCHANGED <<presets, utilVars, wproxy, shutdownPc, sessionVars, isInitialized, learnedUI, wstats, sessionCount,
                 learningRuns, storeVars>>

\* what the learning ScreenAgent can return (LearningResultSchema); a throw
\* of the agent call is the extra outcome `thrown`
LearningResults ==
  [thrown : {FALSE}, success : BOOLEAN, tiktokLaunched : BOOLEAN,
   nextStage : {"learning", "working"}, found : FoundSets]
    \cup
  [thrown : {TRUE}, success : {FALSE}, tiktokLaunched : {FALSE},
   nextStage : {"learning"}, found : {Slots}]

\* the slots a learning run writes: the standard ones, and the search slots
\* in the search-topic variant
LearnableSlots == IF presets.searchTopic THEN Slots ELSE StandardSlots

\* extractUIElements (and the search-slot extraction before it): found slots
\* are written, every other slot keeps what this.learnedUI held
ExtractUIElements(ui, found, run) ==
  [s \in Slots |-> IF s \in found /\ s \in LearnableSlots THEN run ELSE ui[s]]

\* runLearningStage returned true for this result
LearningAccepted(r) == ~r.thrown /\ r.success /\ r.tiktokLaunched

\* runLearningStage, called at step 3 (wpc = "learn") or after a health
\* failure (wpc = "relearn"); a false return is thrown by the caller
RunLearningStage ==
  /\ wpc \in {"learn", "relearn"}
  /\ learningRuns' = learningRuns + 1
  /\ \E r \in LearningResults, writeOk \in BOOLEAN :
       IF LearningAccepted(r)
       THEN LET ui == ExtractUIElements(learnedUI, r.found, learningRuns') IN
            /\ learnedUI' = ui
            /\ store' = SaveDeviceUIData(store, Self, ui, now, writeOk)
            /\ currentStage' = IF r.nextStage = "working" THEN "working" ELSE "learning"
            /\ wpc' = "loopTop"
            /\ obs' = [obs EXCEPT !.relearned = (wpc = "relearn")]
       ELSE /\ PipelineThrows
            /\ obs' = [obs EXCEPT !.hardFailure = "learning"]
            /\ UNCHANGED <<learnedUI, store>>
  /\ UNCHANGED <<presets, utilVars, wproxy, shutdownPc, sessionVars, isInitialized, wstats, sessionCount, now>>

\* the while condition of the session loop; a new session gets a new
\* WorkingStage
SessionLoopTop ==
  /\ wpc = "loopTop"
  /\ IF currentStage = "working"
     THEN /\ sessionCount < MaxSessionRuns
          /\ sessionCount' = sessionCount + 1
          /\ FreshSession
          /\ spc' = "ensureReady"
          /\ wpc' = "inSession"
          /\ obs' = [obs EXCEPT !.streak = 0, !.endCause = "none", !.cyclesStarted = 0,
                                !.cyclesAborted = 0, !.shadowDelays = 0,
                                !.relearned = FALSE]
     ELSE /\ wpc' = "close"
          /\ UNCHANGED <<sessionVars, sessionCount, obs>>
  /\ UNCHANGED <<presets, utilVars, wproxy, shutdownPc, currentStage, isInitialized, learnedUI, wstats, learningRuns,
                 storeVars>>

\* a Worker that keeps the counters of the last session only: C29 requires
\* the sum over all sessions
AccumulateLastOnly(ws, r) ==
  [ws EXCEPT !.videosWatched = r.videosWatched,
             !.likesGiven = r.likesGiven,
             !.commentsPosted = r.commentsPosted,
             !.followsGiven = r.followsGiven]

\* runWorkingSession: fold the session's counters into the cumulative stats
Accumulate(ws, r) ==
  [ws EXCEPT !.videosWatched = @ + r.videosWatched,
             !.likesGiven = @ + r.likesGiven,
             !.commentsPosted = @ + r.commentsPosted,
             !.followsGiven = @ + r.followsGiven]

\* a session loop that rests and goes on after a failed session: C20
\* requires stage 'error' and no retry
AfterSessionRetriesFailure(r, count) ==
  IF r.message = "healthFailureExceeded" THEN "relaunchHF"
  ELSE IF r.message = "dailyLimitReached" THEN "close"
  ELSE IF count >= presets.maxSessionsPerDay THEN "close"
  ELSE "rest"

\* where the session loop goes with a session's result
AfterSession(r, count) ==
  IF r.message = "healthFailureExceeded" THEN "relaunchHF"
  ELSE IF r.message = "dailyLimitReached" THEN "close"
  ELSE IF ~r.success THEN "failed"
  ELSE IF count >= presets.maxSessionsPerDay THEN "close"
  ELSE "rest"

\* the session loop from the return of execute() to its next await; the
\* WorkingStage of the session is dropped
HandleSessionResult ==
  /\ wpc = "inSession"
  /\ spc = "returned"
  /\ FreshSession
  /\ spc' = "idle"
  /\ wstats' = Accumulate(wstats, result)
  /\ \E writeOk \in BOOLEAN :
     LET to == AfterSession(result, sessionCount) IN
       /\ wpc' = IF to = "failed" THEN "close" ELSE to
       /\ currentStage' = IF to = "failed" THEN "error" ELSE currentStage
       /\ learnedUI' = IF to = "relaunchHF" THEN NoUI ELSE learnedUI
       /\ store' = IF to = "relaunchHF" THEN DeleteDeviceUIData(store, Self, writeOk)
                   ELSE store
       /\ obs' = [obs EXCEPT !.lastExit = to, !.streak = 0, !.endCause = "none",
                             !.cyclesStarted = 0, !.cyclesAborted = 0, !.shadowDelays = 0,
                             !.rested = FALSE, !.relaunched = FALSE]
  /\ UNCHANGED <<presets, utilVars, wproxy, shutdownPc, isInitialized, sessionCount, learningRuns, now>>

\* after a health failure: runInitiatingStage; a failed relaunch is thrown
RelaunchAfterHealthFailure ==
  /\ wpc = "relaunchHF"
  /\ \E launchOk \in BOOLEAN :
       IF launchOk
       THEN /\ currentStage' = "initiating"
            /\ wpc' = "relearn"
            /\ obs' = [obs EXCEPT !.relaunched = TRUE, !.closeIssued = FALSE]
       ELSE /\ PipelineThrows
            /\ UNCHANGED obs
  /\ UNCHANGED <<presets, utilVars, wproxy, shutdownPc, sessionVars, isInitialized, learnedUI, wstats, sessionCount,
                 learningRuns, storeVars>>

\* restBetweenSessions: close the app (a device command may throw), sleep
RestBetweenSessions ==
  /\ wpc = "rest"
  /\ \E closeOk \in BOOLEAN :
       /\ obs' = [obs EXCEPT !.closeIssued = TRUE, !.rested = closeOk]
       /\ IF closeOk
          THEN /\ wpc' = "relaunch"
               /\ UNCHANGED currentStage
          ELSE PipelineThrows
  /\ UNCHANGED <<presets, utilVars, wproxy, shutdownPc, sessionVars, isInitialized, learnedUI, wstats, sessionCount,
                 learningRuns, storeVars>>

\* relaunch for the next session: runInitiatingStage; a failure ends the loop
RelaunchAfterRest ==
  /\ wpc = "relaunch"
  /\ \E launchOk \in BOOLEAN :
       IF launchOk
       THEN /\ currentStage' = "initiating"
            /\ wpc' = "loopTop"
            /\ obs' = [obs EXCEPT !.relaunched = TRUE, !.closeIssued = FALSE]
       ELSE /\ currentStage' = "error"
            /\ wpc' = "close"
            /\ UNCHANGED obs
  /\ UNCHANGED <<presets, utilVars, wproxy, shutdownPc, sessionVars, isInitialized, learnedUI, wstats, sessionCount,
                 learningRuns, storeVars>>

\* closeTikTok after the loop, then startAutomation returns
CloseAndReturn ==
  /\ wpc = "close"
  /\ obs' = [obs EXCEPT !.closeIssued = TRUE]
  /\ \E closeOk \in BOOLEAN :
       IF closeOk
       THEN /\ wpc' = "done"
            /\ UNCHANGED currentStage
       ELSE PipelineThrows
  /\ UNCHANGED <<presets, utilVars, wproxy, shutdownPc, sessionVars, isInitialized, learnedUI, wstats, sessionCount,
                 learningRuns, storeVars>>

\* the device commands of shutdown, in order; `none` is the run in which no
\* command throws
ShutdownCommands == <<"terminateApp", "openRecents", "navigateHome", "clearProxy">>
ShutdownFailures == {"none"} \cup {ShutdownCommands[i] : i \in 1..Len(ShutdownCommands)}

\* the commands issued by a shutdown in which `failAt` throws: closeTikTok,
\* then clearProxy if a proxy is configured; the throwing command is the last
ShutdownIssued(failAt, configured) ==
  LET planned == IF configured THEN ShutdownCommands
                 ELSE SubSeq(ShutdownCommands, 1, Len(ShutdownCommands) - 1)
      last == IF \E i \in 1..Len(planned) : planned[i] = failAt
              THEN CHOOSE i \in 1..Len(planned) : planned[i] = failAt
              ELSE Len(planned)
  IN SubSeq(planned, 1, last)

\* shutdown, called once startAutomation has ended: an error of any command
\* is logged and rethrown
Shutdown ==
  /\ wpc \in {"done", "thrown"}
  /\ shutdownPc = "notCalled"
  /\ \E failAt \in ShutdownFailures :
       LET issued == ShutdownIssued(failAt, wproxy.configured)
           threw == failAt # "none"
           cleared == ~threw /\ wproxy.configured
       IN /\ failAt = "clearProxy" => wproxy.configured
          /\ wproxy' = [wproxy EXCEPT !.onDevice = IF cleared THEN FALSE ELSE @]
          /\ isInitialized' = IF threw THEN isInitialized ELSE FALSE
          /\ shutdownPc' = IF threw THEN "thrown" ELSE "returned"
          /\ obs' = [obs EXCEPT !.shutdownIssued = issued]
  /\ UNCHANGED <<presets, utilVars, sessionVars, wpc, currentStage, learnedUI, wstats,
                 sessionCount, learningRuns, storeVars>>

\* getHealthStatus().isHealthy
GetHealthStatus == isInitialized

WorkerNext ==
  \/ Initialize
  \/ LaunchApp
  \/ DecideLearning
  \/ RunLearningStage
  \/ SessionLoopTop
  \/ HandleSessionResult
  \/ RelaunchAfterHealthFailure
  \/ RestBetweenSessions
  \/ RelaunchAfterRest
  \/ CloseAndReturn
  \/ Shutdown

Next == WorkerNext \/ SessionNext

----------------------------------------------------------------------------
(* Initial states *)

\* the observations: per session, the run of consecutive failed periodic
\* health checks, why the loop of execute() was left, the cycles started and
\* aborted, the shadow-ban delays inserted; per pipeline, the entry the store
\* held for this device at start-up, whether step 3 skipped learning, where
\* the last session's result sent the loop, and whether a relearn after a
\* health failure has just been accepted; where the dice are watched
\* (SpecDecide), the draws of the last decideAction while its decisions are
\* untouched; whether terminateApp was issued since the app was last
\* launched, whether a rest and a successful relaunch have happened since the
\* last session returned, the hard setup failure met, if any, and the device
\* commands issued by shutdown
ObsInit(entry) == [streak |-> 0, endCause |-> "none", cyclesStarted |-> 0, cyclesAborted |-> 0,
                   shadowDelays |-> 0,
                   bootEntry |-> entry, learnDecision |-> "undecided", lastExit |-> "none",
                   relearned |-> FALSE, watchDice |-> FALSE, rolls |-> NoRolls,
                   closeIssued |-> FALSE, rested |-> FALSE, relaunched |-> FALSE,
                   hardFailure |-> "none", shutdownIssued |-> <<>>,
                   topic |-> NoTopicWatch, returnedTotal |-> ZeroStats]

\* a Worker constructed without a proxy
NoWorkerProxy == [configured |-> FALSE, onDevice |-> FALSE]

----------------------------------------------------------------------------
(* WorkingStage.scrollToNextVideo, command by command.  A screenshot is the
   sequence of its bytes. *)

MaxShotLen == 2
Shots == UNION {[1..n -> {0, 1}] : n \in 0..MaxShotLen}

Min2(a, b) == IF a <= b THEN a ELSE b
Max2(a, b) == IF a >= b THEN a ELSE b

\* the number of bytes compareScreenshots samples
SAMPLE_COUNT == 1000

\* compareScreenshots: the similarity as the fraction num / den; den = 0 is
\* the NaN that 0 / 0 gives for two empty buffers
CompareScreenshots(before, after) ==
  LET minLen == Min2(Len(before), Len(after))
      maxLen == Max2(Len(before), Len(after))
  IN IF maxLen # 0 /\ 10 * minLen < 9 * maxLen
     THEN [num |-> minLen, den |-> maxLen]
     ELSE LET step == Max2(1, minLen \div SAMPLE_COUNT)
              sampled == {i \in 1..minLen : (i - 1) % step = 0}
          IN [num |-> Cardinality({i \in sampled : before[i] = after[i]}),
              den |-> Cardinality(sampled)]

\* similarity < 0.95; a comparison with NaN is false
ScreenChanged(similarity) == similarity.den # 0 /\ 100 * similarity.num < 95 * similarity.den

maxRetries == 2

\* a device command as the DeviceManager receives it; a swipe goes from
\* `from` % to `to` % of the screen height in `ms` milliseconds
Command(name) == [cmd |-> name, from |-> 0, to |-> 0, ms |-> 0]
Swipe(from, to, ms) == [cmd |-> "swipeScreen", from |-> from, to |-> to, ms |-> ms]

\* a retry loop without progression: every attempt repeats the first swipe;
\* C27 requires the longer, faster swipe on the retries
SwipeOfFirstOnly(attempt) == Swipe(70, 30, 300)

\* the progressive swipe of the retry loop
SwipeOf(attempt) == IF attempt = 0 THEN Swipe(70, 30, 300) ELSE Swipe(85, 15, 200)

\* scrollToNextVideo not called
NoScroll == [pc |-> "idle", before |-> <<>>, attempt |-> 0, log |-> <<>>, judged |-> <<>>,
             threw |-> FALSE, result |-> "none"]

\* the catch block of scrollToNextVideo
ScrollCatch(sc) == [sc EXCEPT !.pc = "returned", !.threw = TRUE, !.result = "false"]

\* getScreenSize
ScrollGetScreenSize ==
  /\ scroll.pc = "getScreenSize"
  /\ \E ok \in BOOLEAN :
       LET sc == [scroll EXCEPT !.log = Append(@, Command("getScreenSize"))]
       IN /\ scroll' = IF ok THEN [sc EXCEPT !.pc = "before"] ELSE ScrollCatch(sc)
          /\ stats' = IF ok THEN stats ELSE [stats EXCEPT !.errors = @ + 1]
  /\ UNCHANGED <<presets, spc, healthFailures, healthFailureExceeded, needsTopicReSearch,
                 sessionSize, shouldContinue, consecutiveErrors, decisions, pvResult, result,
                 workerVars, storeVars, client, comment, proxy, interact, bot, act, obs>>

\* the screenshot taken before the loop
ScrollBeforeScreenshot ==
  /\ scroll.pc = "before"
  /\ \E ok \in BOOLEAN, shot \in Shots :
       LET sc == [scroll EXCEPT !.log = Append(@, Command("takeScreenshot"))]
       IN /\ ~ok => shot = <<>>
          /\ scroll' = IF ok THEN [sc EXCEPT !.pc = "swipe", !.before = shot]
                        ELSE ScrollCatch(sc)
          /\ stats' = IF ok THEN stats ELSE [stats EXCEPT !.errors = @ + 1]
  /\ UNCHANGED <<presets, spc, healthFailures, healthFailureExceeded, needsTopicReSearch,
                 sessionSize, shouldContinue, consecutiveErrors, decisions, pvResult, result,
                 workerVars, storeVars, client, comment, proxy, interact, bot, act, obs>>

\* the swipe of one attempt
ScrollSwipe ==
  /\ scroll.pc = "swipe"
  /\ \E ok \in BOOLEAN :
       LET sc == [scroll EXCEPT !.log = Append(@, SwipeOf(scroll.attempt))]
       IN /\ scroll' = IF ok THEN [sc EXCEPT !.pc = "after"] ELSE ScrollCatch(sc)
          /\ stats' = IF ok THEN stats ELSE [stats EXCEPT !.errors = @ + 1]
  /\ UNCHANGED <<presets, spc, healthFailures, healthFailureExceeded, needsTopicReSearch,
                 sessionSize, shouldContinue, consecutiveErrors, decisions, pvResult, result,
                 workerVars, storeVars, client, comment, proxy, interact, bot, act, obs>>

\* the screenshot after the swipe and its comparison with the first one
ScrollVerify ==
  /\ scroll.pc = "after"
  /\ \E ok \in BOOLEAN, shot \in Shots :
       LET sc == [scroll EXCEPT !.log = Append(@, Command("takeScreenshot"))]
           changed == ScreenChanged(CompareScreenshots(scroll.before, shot))
           seen == [sc EXCEPT !.judged = Append(@, changed)]
       IN /\ ~ok => shot = <<>>
          /\ scroll' = IF ~ok THEN ScrollCatch(sc)
                        ELSE IF changed THEN [seen EXCEPT !.pc = "returned", !.result = "true"]
                        ELSE IF scroll.attempt < maxRetries
                        THEN [seen EXCEPT !.pc = "swipe", !.attempt = @ + 1]
                        ELSE [seen EXCEPT !.pc = "escape"]
          /\ stats' = IF ok THEN stats ELSE [stats EXCEPT !.errors = @ + 1]
  /\ UNCHANGED <<presets, spc, healthFailures, healthFailureExceeded, needsTopicReSearch,
                 sessionSize, shouldContinue, consecutiveErrors, decisions, pvResult, result,
                 workerVars, storeVars, client, comment, proxy, interact, bot, act, obs>>

\* the commands after the loop, up to the one that throws
EscapeFailures == {"none", "navigateBack", "swipeScreen"}
EscapeIssued(failAt) ==
  IF failAt = "navigateBack" THEN <<Command("navigateBack")>>
  ELSE <<Command("navigateBack"), Swipe(85, 15, 200)>>

\* all attempts judged unchanged: back press, one more swipe, return true
ScrollEscape ==
  /\ scroll.pc = "escape"
  /\ \E failAt \in EscapeFailures :
       LET sc == [scroll EXCEPT !.log = @ \o EscapeIssued(failAt)]
       IN /\ scroll' = IF failAt = "none" THEN [sc EXCEPT !.pc = "returned", !.result = "true"]
                        ELSE ScrollCatch(sc)
          /\ stats' = IF failAt = "none" THEN stats ELSE [stats EXCEPT !.errors = @ + 1]
  /\ UNCHANGED <<presets, spc, healthFailures, healthFailureExceeded, needsTopicReSearch,
                 sessionSize, shouldContinue, consecutiveErrors, decisions, pvResult, result,
                 workerVars, storeVars, client, comment, proxy, interact, bot, act, obs>>

\* processVideo goes on after scrollToNextVideo, whatever it returned
ScrollReturn ==
  /\ scroll.pc = "returned"
  /\ spc = "pvActions"
  /\ spc' = "pvEnd"
  /\ UNCHANGED <<presets, stats, healthFailures, healthFailureExceeded, needsTopicReSearch,
                 sessionSize, shouldContinue, consecutiveErrors, decisions, pvResult, result,
                 workerVars, storeVars, utilVars, obs>>

ScrollNext ==
  \/ ScrollGetScreenSize
  \/ ScrollBeforeScreenshot
  \/ ScrollSwipe
  \/ ScrollVerify
  \/ ScrollEscape
  \/ ScrollReturn
  \/ ProcessVideoEnd

----------------------------------------------------------------------------
(* interactWithScreen *)

MaxAgentSteps == 3

\* the tools the model can call besides finish_task: the screenshot tool, the
\* wait tool and the device tools of getAsAiTools
AgentTools == {"take_and_analyze_screenshot", "wait_for_ui", "device"}

\* the values a finish_task call can carry
AgentValues == {1, 2}

\* how the execution of a tool can end: it returns, it throws and the error
\* is reported back to the model, or it throws and generateText rejects
ToolOutcomes == {"returns", "reported", "rejects"}

\* no agent call is in progress
NoAgent == [pc |-> "idle", maxSteps |-> 0, steps |-> 0, calls |-> <<>>,
            promise |-> "none", value |-> 0, caller |-> "none"]

\* interactWithScreen is called: the promise is created, generateText starts
\* with the step budget maxSteps ?? 20
AgentStart(maxSteps) == [pc |-> "running", maxSteps |-> maxSteps, steps |-> 0, calls |-> <<>>,
                         promise |-> "pending", value |-> 0, caller |-> "waiting"]

\* resolve(v) and reject(e) settle a pending promise and do nothing to a
\* settled one
Settle(ag, how, v) ==
  IF ag.promise = "pending" THEN [ag EXCEPT !.promise = how, !.value = v] ELSE ag

\* stopWhen, second condition: stepCountIs(maxSteps)
StepCountIs(ag) == ag.steps >= ag.maxSteps

\* a step in which the model calls a tool other than finish_task; the run
\* ends when the tool's error rejects generateText or the budget is used up
InteractToolStep ==
  /\ interact.pc = "running"
  /\ \E tool \in AgentTools, outcome \in ToolOutcomes :
       LET stepped == [interact EXCEPT !.steps = @ + 1, !.calls = Append(@, tool)] IN
       interact' = IF outcome = "rejects"
                   THEN [Settle(stepped, "rejected", 0) EXCEPT !.pc = "ended"]
                   ELSE IF StepCountIs(stepped) THEN [stepped EXCEPT !.pc = "ended"]
                   ELSE stepped
  /\ UNCHANGED <<presets, sessionVars, workerVars, storeVars, client, comment, proxy, scroll,
                 bot, act, obs>>

\* a step in which the model calls finish_task: execute resolves the promise
\* with the arguments, and hasToolCall('finish_task') stops the run
InteractFinishTask ==
  /\ interact.pc = "running"
  /\ \E v \in AgentValues :
       interact' = [Settle([interact EXCEPT !.steps = @ + 1,
                                           !.calls = Append(@, "finish_task")],
                           "resolved", v) EXCEPT !.pc = "ended"]
  /\ UNCHANGED <<presets, sessionVars, workerVars, storeVars, client, comment, proxy, scroll,
                 bot, act, obs>>

\* a step in which the model answers with text and calls no tool: the run
\* ends, generateText resolves, and nothing is chained on its result
InteractTextOnly ==
  /\ interact.pc = "running"
  /\ interact' = [interact EXCEPT !.steps = @ + 1, !.pc = "ended"]
  /\ UNCHANGED <<presets, sessionVars, workerVars, storeVars, client, comment, proxy, scroll,
                 bot, act, obs>>

\* the request to the model fails: generateText rejects, .catch(reject)
InteractApiError ==
  /\ interact.pc = "running"
  /\ interact' = [Settle(interact, "rejected", 0) EXCEPT !.pc = "ended"]
  /\ UNCHANGED <<presets, sessionVars, workerVars, storeVars, client, comment, proxy, scroll,
                 bot, act, obs>>

\* the caller's await: it goes on once the promise is settled
InteractAwait ==
  /\ interact.caller = "waiting"
  /\ interact.promise \in {"resolved", "rejected"}
  /\ interact' = [interact EXCEPT !.caller = IF interact.promise = "resolved"
                                             THEN "returned" ELSE "thrown"]
  /\ UNCHANGED <<presets, sessionVars, workerVars, storeVars, client, comment, proxy, scroll,
                 bot, act, obs>>

InteractNext ==
  \/ InteractToolStep
  \/ InteractFinishTask
  \/ InteractTextOnly
  \/ InteractApiError
  \/ InteractAwait

----------------------------------------------------------------------------
(* TikTokBot.start *)

\* start() has not run
NoBot == [pc |-> "idle", devices |-> <<>>, idx |-> 1, attempted |-> {}, workers |-> {},
          started |-> {}, agentManagers |-> {}]

\* start() has discovered the devices and calls createWorkers(devices)
BotStart(devices) == [NoBot EXCEPT !.pc = "createWorkers", !.devices = devices]

\* the devices of the list
DevicesOf(devices) == {devices[i] : i \in 1..Len(devices)}

\* how the body of one iteration can end: the Worker is constructed and
\* initialized, or the constructor or initialize() throws
CreateOutcomes == {"created", "constructorThrows", "initializeThrows"}

\* an iteration without its try/catch: the first failure leaves
\* createWorkers and start-up ends there, which C33 excludes
CreateWorkerUncaught(b, d, outcome) ==
  IF outcome = "created"
  THEN [b EXCEPT !.idx = @ + 1, !.attempted = @ \cup {d}, !.workers = @ \cup {d}]
  ELSE [b EXCEPT !.attempted = @ \cup {d}, !.pc = "failed"]

\* createWorkers, one iteration of the for loop: a Worker that is
\* constructed and initialized is registered, a failure is logged and the
\* loop goes on
CreateWorker(b, d, outcome) ==
  IF outcome = "created"
  THEN [b EXCEPT !.idx = @ + 1, !.attempted = @ \cup {d}, !.workers = @ \cup {d}]
  ELSE [b EXCEPT !.idx = @ + 1, !.attempted = @ \cup {d}]

\* createWorkers: the next device of the list
CreateWorkers ==
  /\ bot.pc = "createWorkers"
  /\ bot.idx <= Len(bot.devices)
  /\ \E outcome \in CreateOutcomes :
       bot' = CreateWorker(bot, bot.devices[bot.idx], outcome)
  /\ UNCHANGED <<presets, sessionVars, workerVars, storeVars, client, comment, proxy, scroll,
                 interact, act, obs>>

\* createWorkers, after the loop: it throws when no Worker is registered,
\* and start() then shuts down and exits; else start() goes on
CreateWorkersEnd ==
  /\ bot.pc = "createWorkers"
  /\ bot.idx > Len(bot.devices)
  /\ bot' = [bot EXCEPT !.pc = IF bot.workers = {} THEN "failed" ELSE "startAgentManagers"]
  /\ UNCHANGED <<presets, sessionVars, workerVars, storeVars, client, comment, proxy, scroll,
                 interact, act, obs>>

\* startAgentManagers, the callback of one worker: the callbacks run
\* concurrently, each registers its agent manager when start() returned
\* and logs the failure when it threw
StartAgentManager ==
  /\ bot.pc = "startAgentManagers"
  /\ \E d \in bot.workers \ bot.started, startOk \in BOOLEAN :
       bot' = [bot EXCEPT !.started = @ \cup {d},
                          !.agentManagers = IF startOk THEN @ \cup {d} ELSE @]
  /\ UNCHANGED <<presets, sessionVars, workerVars, storeVars, client, comment, proxy, scroll,
                 interact, act, obs>>

\* startAgentManagers, after Promise.all: it throws when no agent manager
\* is registered; else start() reaches monitorWorkers
StartAgentManagersEnd ==
  /\ bot.pc = "startAgentManagers"
  /\ bot.started = bot.workers
  /\ bot' = [bot EXCEPT !.pc = IF bot.agentManagers = {} THEN "failed" ELSE "monitoring"]
  /\ UNCHANGED <<presets, sessionVars, workerVars, storeVars, client, comment, proxy, scroll,
                 interact, act, obs>>

BotNext ==
  \/ CreateWorkers
  \/ CreateWorkersEnd
  \/ StartAgentManager
  \/ StartAgentManagersEnd

----------------------------------------------------------------------------
(* executeLike, executeComment, executeFollow, command by command *)

\* no action is being executed; after a call, kind, missing, cmds and ret
\* describe the call that has just returned
NoAct == [pc |-> "idle", kind |-> "none", missing |-> FALSE, cmds |-> <<>>, ret |-> FALSE]

\* a coordinate test that never fires: the method goes on to its taps with
\* coordinates it does not have, which C38 excludes
NeverMissing(kind) == FALSE

\* the first line of the three methods: the coordinates they need are not
\* all in this.learnedUI
MissingCoordinates(kind) ==
  CASE kind = "like" -> learnedUI["likeButton"] = 0
    [] kind = "follow" -> learnedUI["followButton"] = 0
    [] OTHER -> \E s \in {"commentButton", "commentInputField", "commentSendButton"} :
                  learnedUI[s] = 0

\* where each method starts once its coordinates are known
FirstStep(kind) ==
  CASE kind = "like" -> "likeTap"
    [] kind = "follow" -> "followGetScreenSize"
    [] OTHER -> IF presets.useAI THEN "commentPhase1" ELSE "commentOpenTemplate"

\* the positions at which one device command is issued, and the command
DeviceSteps == {"likeTap", "followGetScreenSize", "followSwipe", "followTap", "followBack",
                "followCatchBack", "commentOpen", "commentOpenTemplate", "commentFallbackOpen",
                "commentAbandonBack", "commentTapInput", "commentInputText", "commentTapSend",
                "commentClose"}

CommandAt(pc) ==
  CASE pc = "likeTap" -> "tap likeButton"
    [] pc = "followGetScreenSize" -> "getScreenSize"
    [] pc = "followSwipe" -> "swipeScreen"
    [] pc = "followTap" -> "tap followButton"
    [] pc \in {"followBack", "followCatchBack", "commentAbandonBack", "commentClose"} ->
         "navigateBack"
    [] pc \in {"commentOpen", "commentOpenTemplate", "commentFallbackOpen"} ->
         "tap commentButton"
    [] pc = "commentTapInput" -> "tap commentInputField"
    [] pc = "commentInputText" -> "inputText"
    [] OTHER -> "tap commentSendButton"

\* where the method is after the command returned
AfterReturn(pc) ==
  CASE pc = "likeTap" -> "returnTrue"
    [] pc = "followGetScreenSize" -> "followSwipe"
    [] pc = "followSwipe" -> "followTap"
    [] pc = "followTap" -> "followBack"
    [] pc = "followBack" -> "returnTrue"
    [] pc = "followCatchBack" -> "returnFalse"
    [] pc = "commentOpen" -> "commentPhase2"
    [] pc = "commentAbandonBack" -> "returnFalse"
    [] pc \in {"commentOpenTemplate", "commentFallbackOpen"} -> "commentTapInput"
    [] pc = "commentTapInput" -> "commentInputText"
    [] pc = "commentInputText" -> "commentTapSend"
    [] pc = "commentTapSend" -> "commentVerify"
    [] OTHER -> "returnTrue"

\* where the method is after the command threw: the catch of executeFollow
\* tries a back navigation and ignores its failure; the inner catch of
\* executeComment (AI path) falls back to a template and taps the comment
\* button; every other throw reaches the method's catch, which returns false
AfterThrow(pc) ==
  CASE pc \in {"followGetScreenSize", "followSwipe", "followTap", "followBack"} ->
         "followCatchBack"
    [] pc \in {"commentOpen", "commentAbandonBack"} -> "commentFallbackOpen"
    [] OTHER -> "returnFalse"

\* the throws that reach a catch doing this.stats.errors++
CountsError(pc) == pc \notin {"followCatchBack", "commentOpen", "commentAbandonBack"}

\* the method returns: the for loop of processVideo moves to the next decision
ActReturn(a, value) == [a EXCEPT !.pc = "idle", !.ret = value]

\* executeLike / executeComment / executeFollow is called for the next
\* decision; without its coordinates it logs and returns false at once
ExecBegin ==
  /\ spc = "pvActions"
  /\ act.pc = "idle"
  /\ decisions # <<>>
  /\ Head(decisions) \in {"like", "comment", "follow"}
  /\ LET kind == Head(decisions) IN
     IF MissingCoordinates(kind)
     THEN /\ act' = [pc |-> "idle", kind |-> kind, missing |-> TRUE, cmds |-> <<>>,
                     ret |-> FALSE]
          /\ decisions' = Tail(decisions)
     ELSE /\ act' = [pc |-> FirstStep(kind), kind |-> kind, missing |-> FALSE,
                     cmds |-> <<>>, ret |-> FALSE]
          /\ UNCHANGED decisions
  /\ UNCHANGED <<presets, spc, stats, healthFailures, healthFailureExceeded, needsTopicReSearch,
                 sessionSize, shouldContinue, consecutiveErrors, pvResult, result,
                 workerVars, storeVars, client, comment, proxy, scroll, interact, bot, obs>>

\* one device command of the method: it returns or throws
ExecDeviceCommand ==
  /\ act.pc \in DeviceSteps
  /\ \E ok \in BOOLEAN :
       LET logged == [act EXCEPT !.cmds = Append(@, [cmd |-> CommandAt(act.pc), ok |-> ok])]
           target == IF ok THEN AfterReturn(act.pc) ELSE AfterThrow(act.pc)
       IN /\ (~ok /\ CountsError(act.pc)) => stats.errors < MaxErrors
          /\ stats' = IF ok
                      THEN [stats EXCEPT
                              !.likesGiven = IF act.pc = "likeTap" THEN @ + 1 ELSE @,
                              !.followsGiven = IF act.pc = "followBack" THEN @ + 1 ELSE @]
                      ELSE [stats EXCEPT !.errors = IF CountsError(act.pc) THEN @ + 1 ELSE @]
          /\ IF target \in {"returnTrue", "returnFalse"}
             THEN /\ act' = ActReturn(logged, target = "returnTrue")
                  /\ decisions' = Tail(decisions)
             ELSE /\ act' = [logged EXCEPT !.pc = target]
                  /\ UNCHANGED decisions
  /\ UNCHANGED <<presets, spc, healthFailures, healthFailureExceeded, needsTopicReSearch,
                 sessionSize, shouldContinue, consecutiveErrors, pvResult, result,
                 workerVars, storeVars, client, comment, proxy, scroll, interact, bot, obs>>

\* what a phase of the AI comment generation can give: a result for a
\* normal comments screen, a result saying the screen is not normal
\* (phase 2 only), or a throw
PhaseAnswers == {"normal", "notNormal", "throws"}

\* executeComment, AI path: phase 1 before the comment button is tapped,
\* phase 2 after it
ExecCommentPhase ==
  /\ act.pc \in {"commentPhase1", "commentPhase2"}
  /\ \E answer \in PhaseAnswers :
       act' = [act EXCEPT !.pc = CASE answer = "throws" -> "commentFallbackOpen"
                                   [] act.pc = "commentPhase1" -> "commentOpen"
                                   [] answer = "notNormal" -> "commentAbandonBack"
                                   [] OTHER -> "commentTapInput"]
  /\ UNCHANGED <<presets, sessionVars, workerVars, storeVars, client, comment, proxy, scroll,
                 interact, bot, obs>>

\* executeComment: the verification, the health check when the text is not
\* seen, and the count of the comment
ExecCommentVerify ==
  /\ act.pc = "commentVerify"
  /\ \E verified \in BOOLEAN, outcome \in HealthOutcomes :
       LET h == IF ~verified
                THEN PerformHealthCheck(healthFailures, healthFailureExceeded,
                                        needsTopicReSearch, outcome)
                ELSE [ok |-> TRUE, healthFailures |-> healthFailures,
                      healthFailureExceeded |-> healthFailureExceeded,
                      needsTopicReSearch |-> needsTopicReSearch]
       IN /\ healthFailures' = h.healthFailures
          /\ healthFailureExceeded' = h.healthFailureExceeded
          /\ needsTopicReSearch' = h.needsTopicReSearch
  /\ stats' = [stats EXCEPT !.commentsPosted = @ + 1]
  /\ act' = [act EXCEPT !.pc = "commentClose"]
  /\ UNCHANGED <<presets, spc, sessionSize, shouldContinue, consecutiveErrors, decisions,
                 pvResult, result, workerVars, storeVars, client, comment, proxy, scroll,
                 interact, bot, obs>>

\* one video cycle from the dice on, its actions carried out command by
\* command
ActsNext ==
  \/ DecideAction
  \/ ExecBegin
  \/ ExecDeviceCommand
  \/ ExecCommentPhase
  \/ ExecCommentVerify
  \/ NextVideoMarker
  \/ ScrollToNextVideo
  \/ ProcessVideoEnd

\* no stand-alone operation has run
UtilIdle ==
  /\ client = [d \in Devices |-> IdleClient]
  /\ comment = NoComment
  /\ proxy = NoProxyRun
  /\ scroll = NoScroll
  /\ interact = NoAgent
  /\ bot = NoBot
  /\ act = NoAct

\* presets of the single-session specification: every threshold varies; the
\* three chances are strictly between 0 and 1 so that every dice outcome
\* occurs, or like always fires and comment and follow never do
SessionPresets ==
  {p \in PresetsType : /\ p.maxSessionsPerDay = 1
                       /\ p.commentMaxLength = 1
                       /\ p.minVideos = MinVideos /\ p.maxVideos = MinVideos + 1
                       /\ p.shadowBanInterval = MaxHealthInterval
                       /\ p.searchTopic /\ p.useAI
                       /\ \/ /\ p.likeChance = 1 /\ p.commentChance = 1 /\ p.followChance = 1
                          \/ /\ p.likeChance = ChanceScale
                             /\ p.commentChance = 0 /\ p.followChance = 0
                             /\ p.healthCheckInterval = 1
                             /\ p.maxHealthFailures = MaxHealthFailuresCfg
                             /\ p.maxConsecutiveErrors = 1}

\* a WorkingStage about to run execute() for a Worker in stage 'working'
SessionInit ==
  /\ presets \in SessionPresets
  /\ spc = "ensureReady"
  /\ stats = ZeroStats
  /\ healthFailures = 0
  /\ healthFailureExceeded = FALSE
  /\ needsTopicReSearch = FALSE
  /\ sessionSize = 0
  /\ shouldContinue = TRUE
  /\ consecutiveErrors = 0
  /\ decisions = <<>>
  /\ pvResult = TRUE
  /\ result = NoResult
  /\ wpc = "inSession"
  /\ currentStage = "working"
  /\ isInitialized = TRUE
  /\ learnedUI \in {UIOf(f, PersistedRun) : f \in FoundSets}
  /\ wstats = ZeroStats
  /\ sessionCount = 1
  /\ learningRuns = 0
  /\ wproxy = NoWorkerProxy
  /\ shutdownPc = "notCalled"
  /\ store = [d \in Devices |-> NoEntry]
  /\ now = MAX_AGE_DAYS + 1
  /\ UtilIdle
  /\ obs = ObsInit(NoEntry)

SpecSession == SessionInit /\ [][SessionNext]_vars

\* presets of a long like-only session: the target and the daily limit lie
\* beyond SHADOW_BAN_MIN_LIKES, the like fires on every video, comment and
\* follow on none
ShadowPresets ==
  {[healthCheckInterval |-> MaxHealthInterval,
    maxHealthFailures |-> MaxHealthFailuresCfg,
    shadowBanInterval |-> i,
    maxConsecutiveErrors |-> MaxConsecutiveErrorsCfg,
    dailyLimit |-> SHADOW_BAN_MIN_LIKES + MaxDailyLimit + 1,
    minVideos |-> SHADOW_BAN_MIN_LIKES + 1,
    maxVideos |-> SHADOW_BAN_MIN_LIKES + MaxHealthInterval + 1,
    maxSessionsPerDay |-> 1,
    searchTopic |-> TRUE,
    useAI |-> TRUE,
    commentMaxLength |-> 1,
    likeChance |-> ChanceScale,
    commentChance |-> 0,
    followChance |-> 0] : i \in 1..MaxHealthInterval}

\* a WorkingStage about to run execute() for a long session
ShadowInit ==
  /\ presets \in ShadowPresets
  /\ spc = "ensureReady"
  /\ stats = ZeroStats
  /\ healthFailures = 0
  /\ healthFailureExceeded = FALSE
  /\ needsTopicReSearch = FALSE
  /\ sessionSize = 0
  /\ shouldContinue = TRUE
  /\ consecutiveErrors = 0
  /\ decisions = <<>>
  /\ pvResult = TRUE
  /\ result = NoResult
  /\ wpc = "inSession"
  /\ currentStage = "working"
  /\ isInitialized = TRUE
  /\ learnedUI = UIOf(Slots, PersistedRun)
  /\ wstats = ZeroStats
  /\ sessionCount = 1
  /\ learningRuns = 0
  /\ wproxy = NoWorkerProxy
  /\ shutdownPc = "notCalled"
  /\ store = [d \in Devices |-> NoEntry]
  /\ now = MAX_AGE_DAYS + 1
  /\ UtilIdle
  /\ obs = ObsInit(NoEntry)

\* the steps of execute() that a like-only session takes
ShadowNext ==
  \/ ExecuteEnsureReady
  \/ ExecuteTopicSearch
  \/ PickSessionSize
  \/ ProcessVideoBegin
  \/ PeriodicHealthCheck
  \/ ShadowBanCheck
  \/ DecideAction
  \/ ExecuteLike
  \/ ScrollToNextVideo
  \/ ProcessVideoEnd
  \/ ExecuteLoopStep
  \/ ExecuteReturn

SpecShadow == ShadowInit /\ [][ShadowNext]_vars

\* presets of a session with or without a search topic: health check on
\* every video, largest thresholds, every dice outcome
TopicPresets ==
  {[p EXCEPT !.searchTopic = t] :
     p \in {q \in SessionPresets : /\ q.likeChance = 1
                                   /\ q.healthCheckInterval = 1
                                   /\ q.maxHealthFailures = MaxHealthFailuresCfg
                                   /\ q.maxConsecutiveErrors = MaxConsecutiveErrorsCfg
                                   /\ q.dailyLimit = MaxDailyLimit},
     t \in BOOLEAN}

\* a WorkingStage about to run execute(), its topic flow observed
TopicInit ==
  /\ presets \in TopicPresets
  /\ spc = "ensureReady"
  /\ stats = ZeroStats
  /\ healthFailures = 0
  /\ healthFailureExceeded = FALSE
  /\ needsTopicReSearch = FALSE
  /\ sessionSize = 0
  /\ shouldContinue = TRUE
  /\ consecutiveErrors = 0
  /\ decisions = <<>>
  /\ pvResult = TRUE
  /\ result = NoResult
  /\ wpc = "inSession"
  /\ currentStage = "working"
  /\ isInitialized = TRUE
  /\ learnedUI = UIOf(Slots, PersistedRun)
  /\ wstats = ZeroStats
  /\ sessionCount = 1
  /\ learningRuns = 0
  /\ wproxy = NoWorkerProxy
  /\ shutdownPc = "notCalled"
  /\ store = [d \in Devices |-> NoEntry]
  /\ now = MAX_AGE_DAYS + 1
  /\ UtilIdle
  /\ obs = [ObsInit(NoEntry) EXCEPT !.topic.watch = TRUE]

SpecTopic == TopicInit /\ [][SessionNext]_vars

\* presets of the pipeline specification: the session thresholds are the
\* smallest ones, the session cap varies
WorkerPresets ==
  {p \in PresetsType : /\ p.healthCheckInterval = 1
                       /\ p.maxHealthFailures = 1
                       /\ p.maxConsecutiveErrors = 1
                       /\ p.dailyLimit = 1
                       /\ p.commentMaxLength = 1
                       /\ p.minVideos = 1 /\ p.maxVideos = 2
                       /\ p.shadowBanInterval = 1
                       /\ p.searchTopic /\ p.useAI
                       /\ p.likeChance = 1 /\ p.commentChance = 1 /\ p.followChance = 1}

\* the entries the store may hold when the process starts: written at most
\* MAX_AGE_DAYS + 1 days ago, with every slot or with the like button missing
BootEntries ==
  {NoEntry} \cup {EntryOf(UIOf(f, PersistedRun), t) :
                    f \in FoundSets, t \in {0, 1, MAX_AGE_DAYS + 1}}

\* a Worker just constructed
Init ==
  /\ presets \in WorkerPresets
  /\ spc = "idle"
  /\ stats = ZeroStats
  /\ healthFailures = 0
  /\ healthFailureExceeded = FALSE
  /\ needsTopicReSearch = FALSE
  /\ sessionSize = 0
  /\ shouldContinue = TRUE
  /\ consecutiveErrors = 0
  /\ decisions = <<>>
  /\ pvResult = TRUE
  /\ result = NoResult
  /\ wpc = "created"
  /\ currentStage = "initiating"
  /\ isInitialized = FALSE
  /\ learnedUI = NoUI
  /\ wstats = ZeroStats
  /\ sessionCount = 0
  /\ learningRuns = 0
  /\ wproxy \in {[configured |-> c, onDevice |-> FALSE] : c \in BOOLEAN}
  /\ shutdownPc = "notCalled"
  /\ now = MAX_AGE_DAYS + 1
  /\ store \in {[d \in Devices |-> IF d = Self THEN e ELSE o] :
                  e \in BootEntries, o \in {NoEntry, EntryOf(UIOf(Slots, PersistedRun), now)}}
  /\ UtilIdle
  /\ obs = ObsInit(store[Self])

Spec == Init /\ [][Next]_vars

\* entries written by an earlier process whose learning run did not find the
\* comment button: incomplete, not expired
IncompleteBootEntries ==
  {EntryOf(UIOf(Slots \ {"commentButton"}, PersistedRun), t) : t \in {1, MAX_AGE_DAYS + 1}}

\* a Worker just constructed on a device whose stored entry is incomplete
IncompleteInit ==
  /\ presets \in WorkerPresets
  /\ spc = "idle"
  /\ stats = ZeroStats
  /\ healthFailures = 0
  /\ healthFailureExceeded = FALSE
  /\ needsTopicReSearch = FALSE
  /\ sessionSize = 0
  /\ shouldContinue = TRUE
  /\ consecutiveErrors = 0
  /\ decisions = <<>>
  /\ pvResult = TRUE
  /\ result = NoResult
  /\ wpc = "created"
  /\ currentStage = "initiating"
  /\ isInitialized = FALSE
  /\ learnedUI = NoUI
  /\ wstats = ZeroStats
  /\ sessionCount = 0
  /\ learningRuns = 0
  /\ wproxy = NoWorkerProxy
  /\ shutdownPc = "notCalled"
  /\ now = MAX_AGE_DAYS + 1
  /\ \E e \in IncompleteBootEntries :
       /\ store = [d \in Devices |-> IF d = Self THEN e ELSE NoEntry]
       /\ obs = ObsInit(e)
  /\ UtilIdle

SpecIncomplete == IncompleteInit /\ [][Next]_vars

\* presets with a daily limit that one session of two videos can stay
\* under: the session cap is the largest one
DailyPresets ==
  {[p EXCEPT !.dailyLimit = MaxDailyLimit + 1] :
     p \in {q \in WorkerPresets : q.maxSessionsPerDay = MaxSessionsCfg}}

\* a Worker just constructed, no entry stored for its device
DailyInit ==
  /\ presets \in DailyPresets
  /\ spc = "idle"
  /\ stats = ZeroStats
  /\ healthFailures = 0
  /\ healthFailureExceeded = FALSE
  /\ needsTopicReSearch = FALSE
  /\ sessionSize = 0
  /\ shouldContinue = TRUE
  /\ consecutiveErrors = 0
  /\ decisions = <<>>
  /\ pvResult = TRUE
  /\ result = NoResult
  /\ wpc = "created"
  /\ currentStage = "initiating"
  /\ isInitialized = FALSE
  /\ learnedUI = NoUI
  /\ wstats = ZeroStats
  /\ sessionCount = 0
  /\ learningRuns = 0
  /\ wproxy = NoWorkerProxy
  /\ shutdownPc = "notCalled"
  /\ now = MAX_AGE_DAYS + 1
  /\ store = [d \in Devices |-> NoEntry]
  /\ obs = ObsInit(NoEntry)
  /\ UtilIdle

SpecDaily == DailyInit /\ [][Next]_vars

----------------------------------------------------------------------------
(* Specifications of the stand-alone operations *)

\* the smallest presets, for the specifications that do not read them
SmallPresets ==
  {p \in WorkerPresets : p.maxSessionsPerDay = 1}

\* no Worker runs: its variables keep the values of a Worker just constructed
NoWorker ==
  /\ spc = "idle"
  /\ stats = ZeroStats
  /\ healthFailures = 0
  /\ healthFailureExceeded = FALSE
  /\ needsTopicReSearch = FALSE
  /\ sessionSize = 0
  /\ shouldContinue = TRUE
  /\ consecutiveErrors = 0
  /\ decisions = <<>>
  /\ pvResult = TRUE
  /\ result = NoResult
  /\ wpc = "created"
  /\ currentStage = "initiating"
  /\ isInitialized = FALSE
  /\ learnedUI = NoUI
  /\ wstats = ZeroStats
  /\ sessionCount = 0
  /\ learningRuns = 0
  /\ wproxy = NoWorkerProxy
  /\ shutdownPc = "notCalled"
  /\ obs = ObsInit(NoEntry)

\* one caller of UIDataPersistence and a clock; the document starts with
\* any entry for the two devices
RoundTripInit ==
  /\ NoWorker
  /\ presets \in SmallPresets
  /\ now = 0
  /\ store \in [Devices -> {NoEntry, EntryOf(UIOf(Slots, PersistedRun), 0)}]
  /\ UtilIdle

SpecRoundTrip == RoundTripInit /\ [][RoundTripNext]_vars

\* two Workers of one process calling UIDataPersistence, each for its own
\* device id; the document starts with any entry for the two devices
ConcurrentInit ==
  /\ NoWorker
  /\ presets \in SmallPresets
  /\ now = MAX_AGE_DAYS + 1
  /\ store \in [Devices -> {NoEntry, EntryOf(UIOf(Slots, PersistedRun), 0),
                             EntryOf(UIOf(Slots, PersistedRun), now)}]
  /\ UtilIdle

SpecConcurrent == ConcurrentInit /\ [][ConcurrentNext]_vars

\* one Worker calling UIDataPersistence for its own device id while nothing
\* else touches the file; the document starts with any entry for the two
\* devices
SpecPartition == ConcurrentInit /\ [][PartitionNext]_vars

\* executeComment with any text, on either path
SanitizeInit ==
  /\ NoWorker
  /\ presets \in {[q EXCEPT !.useAI = u, !.commentMaxLength = m] :
                     q \in SmallPresets, u \in BOOLEAN, m \in 1..MaxCommentLength}
  /\ now = 0
  /\ store = [d \in Devices |-> NoEntry]
  /\ client = [d \in Devices |-> IdleClient]
  /\ comment \in {[NoComment EXCEPT !.raw = t] : t \in TextsUpTo(MaxTextLen)}
  /\ proxy = NoProxyRun
  /\ scroll = NoScroll
  /\ interact = NoAgent
  /\ bot = NoBot
  /\ act = NoAct

SpecSanitize == SanitizeInit /\ [][TypeComment]_vars

\* decideAction with any three chances
DecideInit ==
  /\ \E q \in SmallPresets :
       presets \in {[q EXCEPT !.likeChance = l, !.commentChance = c, !.followChance = f] :
                       l \in Chances, c \in Chances, f \in Chances}
  /\ spc = "pvDecide"
  /\ stats = ZeroStats
  /\ healthFailures = 0
  /\ healthFailureExceeded = FALSE
  /\ needsTopicReSearch = FALSE
  /\ sessionSize = 1
  /\ shouldContinue = TRUE
  /\ consecutiveErrors = 0
  /\ decisions = <<>>
  /\ pvResult = TRUE
  /\ result = NoResult
  /\ wpc = "inSession"
  /\ currentStage = "working"
  /\ isInitialized = TRUE
  /\ learnedUI = UIOf(Slots, 1)
  /\ wstats = ZeroStats
  /\ sessionCount = 1
  /\ learningRuns = 1
  /\ wproxy = NoWorkerProxy
  /\ shutdownPc = "notCalled"
  /\ now = 0
  /\ store = [d \in Devices |-> NoEntry]
  /\ obs = [ObsInit(NoEntry) EXCEPT !.watchDice = TRUE]
  /\ UtilIdle

SpecDecide == DecideInit /\ [][DecideAction]_vars

\* processVideo has carried out the decisions of the first cycle and calls
\* scrollToNextVideo
ScrollInit ==
  /\ presets \in SmallPresets
  /\ spc = "pvActions"
  /\ stats = ZeroStats
  /\ healthFailures = 0
  /\ healthFailureExceeded = FALSE
  /\ needsTopicReSearch = FALSE
  /\ sessionSize = presets.minVideos
  /\ shouldContinue = TRUE
  /\ consecutiveErrors = 0
  /\ decisions = <<>>
  /\ pvResult = TRUE
  /\ result = NoResult
  /\ wpc = "inSession"
  /\ currentStage = "working"
  /\ isInitialized = TRUE
  /\ learnedUI = UIOf(Slots, 1)
  /\ wstats = ZeroStats
  /\ sessionCount = 1
  /\ learningRuns = 1
  /\ wproxy = NoWorkerProxy
  /\ shutdownPc = "notCalled"
  /\ now = 0
  /\ store = [d \in Devices |-> NoEntry]
  /\ obs = [ObsInit(NoEntry) EXCEPT !.cyclesStarted = 1]
  /\ client = [d \in Devices |-> IdleClient]
  /\ comment = NoComment
  /\ proxy = NoProxyRun
  /\ scroll = [NoScroll EXCEPT !.pc = "getScreenSize"]
  /\ interact = NoAgent
  /\ bot = NoBot
  /\ act = NoAct

SpecScroll == ScrollInit /\ [][ScrollNext]_vars

\* assignProxiesToDevices with any device list and settings
ProxyInit ==
  /\ NoWorker
  /\ presets \in SmallPresets
  /\ now = 0
  /\ store = [d \in Devices |-> NoEntry]
  /\ client = [d \in Devices |-> IdleClient]
  /\ comment = NoComment
  /\ scroll = NoScroll
  /\ interact = NoAgent
  /\ bot = NoBot
  /\ act = NoAct
  /\ proxy \in {[NoProxyRun EXCEPT !.deviceIds = ids, !.settings = st] :
                  ids \in DeviceLists, st \in ProxySettingsType}

SpecProxy == ProxyInit /\ [][AssignProxies]_vars

\* one call of interactWithScreen with any step budget; the event loop runs
\* whatever is runnable, so a step that can be taken is eventually taken
InteractInit ==
  /\ NoWorker
  /\ presets \in SmallPresets
  /\ now = 0
  /\ store = [d \in Devices |-> NoEntry]
  /\ client = [d \in Devices |-> IdleClient]
  /\ comment = NoComment
  /\ proxy = NoProxyRun
  /\ scroll = NoScroll
  /\ bot = NoBot
  /\ act = NoAct
  /\ interact \in {AgentStart(n) : n \in 1..MaxAgentSteps}

SpecInteract == InteractInit /\ [][InteractNext]_vars /\ WF_vars(InteractNext)

\* start() with any non-empty list of discovered devices
BotInit ==
  /\ NoWorker
  /\ presets \in SmallPresets
  /\ now = 0
  /\ store = [d \in Devices |-> NoEntry]
  /\ client = [d \in Devices |-> IdleClient]
  /\ comment = NoComment
  /\ proxy = NoProxyRun
  /\ scroll = NoScroll
  /\ interact = NoAgent
  /\ act = NoAct
  /\ bot \in {BotStart(ids) : ids \in DeviceLists \ {<<>>}}

SpecBot == BotInit /\ [][BotNext]_vars

\* the learned-UI sets of a Worker in stage 'working': the optional follow
\* button may be missing, and so may the like and the comment button
ActFoundSets == {Slots \ m : m \in SUBSET {"likeButton", "commentButton", "followButton"}}

\* processVideo of the first cycle is about to roll the dice; every dice
\* outcome occurs, with AI comments or templates
ActsInit ==
  /\ presets \in {[p EXCEPT !.useAI = ai, !.dailyLimit = MaxDailyLimit] :
                    p \in SmallPresets, ai \in BOOLEAN}
  /\ spc = "pvDecide"
  /\ stats = ZeroStats
  /\ healthFailures = 0
  /\ healthFailureExceeded = FALSE
  /\ needsTopicReSearch = FALSE
  /\ sessionSize = presets.minVideos
  /\ shouldContinue = TRUE
  /\ consecutiveErrors = 0
  /\ decisions = <<>>
  /\ pvResult = TRUE
  /\ result = NoResult
  /\ wpc = "inSession"
  /\ currentStage = "working"
  /\ isInitialized = TRUE
  /\ learnedUI \in {UIOf(f, 1) : f \in ActFoundSets}
  /\ wstats = ZeroStats
  /\ sessionCount = 1
  /\ learningRuns = 1
  /\ wproxy = NoWorkerProxy
  /\ shutdownPc = "notCalled"
  /\ now = 0
  /\ store = [d \in Devices |-> NoEntry]
  /\ obs = [ObsInit(NoEntry) EXCEPT !.cyclesStarted = 1]
  /\ UtilIdle

SpecActs == ActsInit /\ [][ActsNext]_vars

----------------------------------------------------------------------------
(* Properties of one WorkingStage session (SpecSession) *)

SessionRunning == spc \notin {"idle", "returned", "thrown"}
SessionReturned == spc = "returned"

\* C1: a session ends with success=false and "healthFailureExceeded" after
\* exactly maxHealthFailures consecutive failed periodic health checks: a
\* failing streak never grows past maxHealthFailures, a streak of that length
\* ends the session, and the session does not end that way on a shorter one.
C1_HealthFailureAfterExactlyMax ==
  /\ obs.streak <= presets.maxHealthFailures
  /\ (SessionRunning /\ obs.streak = presets.maxHealthFailures) =>
        (spc \in {"loopCheck", "finish"} /\ healthFailureExceeded)
  /\ (SessionReturned /\ result.message = "healthFailureExceeded") =>
        (~result.success /\ obs.streak = presets.maxHealthFailures)

\* C2: once a cycle ends with likes+comments+follows >= dailyLimit the loop
\* is left and execute() returns success=true, shouldContinue=false,
\* message "dailyLimitReached".
C2_DailyLimitStopsWithMessage ==
  /\ obs.endCause = "daily" => spc \in {"loopCheck", "finish", "returned"}
  /\ (SessionReturned /\ obs.endCause = "daily") =>
        /\ result.message = "dailyLimitReached"
        /\ result.success
        /\ ~result.shouldContinue

\* a cycle of processVideo is under way
CycleInProgress == spc \in {"pvHealth", "pvShadow", "pvDecide", "pvActions", "pvEnd"}

\* the cycles that ran to their end: started, not aborted, not under way
CompletedCycles ==
  obs.cyclesStarted - obs.cyclesAborted - (IF CycleInProgress THEN 1 ELSE 0)

\* execute() has drawn the session target
TargetDrawn ==
  /\ spc \notin {"idle", "ensureReady", "topicSearch", "pickSize"}
  /\ obs.endCause # "notReady"

\* C3: videosWatched is the number of completed video cycles (an aborted
\* cycle adds nothing), it never decreases within a session, and it never
\* exceeds the session target drawn from [minVideos, maxVideos].
C3_VideosWatchedCountsCompletedCycles ==
  /\ [](/\ stats.videosWatched = CompletedCycles
        /\ TargetDrawn => /\ sessionSize \in presets.minVideos..presets.maxVideos
                          /\ stats.videosWatched <= sessionSize)
  /\ [][\/ stats'.videosWatched = stats.videosWatched
        \/ /\ stats'.videosWatched = stats.videosWatched + 1
           /\ spc = "pvEnd"
        \/ spc' = "ensureReady" \/ spc' = "idle"]_vars

\* C3 witness: a session that watched the largest target, a device command
\* having failed on the way
C3_Witness ==
  /\ SessionReturned
  /\ stats.videosWatched = sessionSize
  /\ sessionSize = presets.maxVideos
  /\ stats.errors > 0

\* C4: execute() never throws and the result it returns carries the
\* session's counters as counted so far, whatever fails.
C4_ExecuteNeverThrows ==
  /\ spc # "thrown"
  /\ SessionReturned =>
        /\ result.message # "none"
        /\ result.videosWatched = stats.videosWatched
        /\ result.likesGiven = stats.likesGiven
        /\ result.commentsPosted = stats.commentsPosted
        /\ result.followsGiven = stats.followsGiven

\* C4 witness: a result returned after a failed device command and a failed
\* health check
C4_Witness ==
  /\ SessionReturned
  /\ stats.errors > 0
  /\ healthFailures > 0
  /\ result.likesGiven > 0

\* C5: a session stopped by the consecutive-error threshold returns
\* success=false.
C5_ErrorStopReturnsFailure ==
  (SessionReturned /\ obs.endCause = "errors") => ~result.success

\* C6: shouldContinue=true exactly when the session ended because
\* videosWatched reached the target, then with success=true and a message
\* that is neither "dailyLimitReached" nor "healthFailureExceeded".
C6_ShouldContinueIffTargetReached ==
  SessionReturned =>
    /\ result.shouldContinue <=> obs.endCause = "target"
    /\ result.shouldContinue =>
          /\ result.success
          /\ result.message \notin {"dailyLimitReached", "healthFailureExceeded"}

----------------------------------------------------------------------------
(* Properties of the Worker pipeline (Spec) *)

\* C7: startAutomation returns normally only in a terminal stage: 'stopped'
\* after the daily cap or the session cap, 'error' after a failed session.
C7_ReturnsInTerminalStage ==
  wpc = "done" =>
    /\ currentStage \in {"stopped", "error"}
    /\ obs.lastExit = "close" => currentStage = "stopped"
    /\ obs.lastExit = "failed" => currentStage = "error"

\* C8: after "healthFailureExceeded" the stored entry is deleted and the
\* learned UI discarded, and once the relaunch and the relearn succeeded the
\* loop goes on to another working session in stage 'working'.
C8_RelearnContinuesPipeline ==
  /\ wpc \in {"relaunchHF", "relearn"} => learnedUI = NoUI
  /\ obs.relearned => (wpc = "loopTop" /\ currentStage = "working")

\* C9: no working session runs while a required slot is absent.
C9_NoSessionWithoutRequiredSlots ==
  wpc = "inSession" => HasLearnedUI(learnedUI)

\* the store held, at start-up, a non-expired entry of this device with the
\* required slots
ValidBootEntry ==
  /\ obs.bootEntry.present
  /\ now - obs.bootEntry.timestamp <= MAX_AGE_DAYS
  /\ \A s \in RequiredSlots : obs.bootEntry.learnedUI[s] # 0

\* C10: at start-up learning is skipped exactly when the store holds a
\* non-expired entry of this device with the required slots; an expired
\* entry leaves the Worker as a missing one does, and learning then runs
\* before any working session.
C10_LearningSkippedIffValidEntry ==
  /\ obs.learnDecision # "undecided" => (obs.learnDecision = "skipped" <=> ValidBootEntry)
  /\ (obs.learnDecision = "skipped" /\ wpc = "loopTop" /\ sessionCount = 0) =>
        currentStage = "working"
  /\ (sessionCount > 0 /\ ~ValidBootEntry) => learningRuns > 0
  /\ (wpc = "launch" /\ obs.bootEntry.present
        /\ now - obs.bootEntry.timestamp > MAX_AGE_DAYS) =>
        (learnedUI = NoUI /\ currentStage = "initiating")

\* C10 witness: a session running after learning, the store having held an
\* expired entry with every slot
C10_Witness ==
  /\ wpc = "inSession"
  /\ obs.bootEntry.present
  /\ now - obs.bootEntry.timestamp > MAX_AGE_DAYS
  /\ HasLearnedUI(obs.bootEntry.learnedUI)
  /\ obs.learnDecision = "learn"

----------------------------------------------------------------------------
(* Claims about UIDataPersistence (SpecRoundTrip, SpecConcurrent) *)

\* the caller starts a load while the entry of its own last completed save
\* is the one it left
LoadsOwnSave ==
  /\ client[Self].pc = "idle"
  /\ client[Self].mine.known
  /\ client[Self].mine.entry.present
  /\ client'[Self] # client[Self]
  /\ client'[Self].op = "load"

\* a load has returned and no write of it failed
LoadCompleted ==
  /\ client[Self].pc = "idle"
  /\ client[Self].op = "load"
  /\ ~client[Self].failed

AllCallsReturned == \A d \in Devices : client[d].pc = "idle"

\* C12: whenever the calls of the two Workers have all returned, the document
\* holds for each device the entry that device's own last completed update
\* left: no interleaving of the reads and writes loses an update
C12_NoLostUpdate ==
  AllCallsReturned =>
    \A d \in Devices : client[d].mine.known => store[d] = client[d].mine.entry

----------------------------------------------------------------------------
(* Claims about decideAction (SpecDecide) *)

\* the dice have been rolled and no decision has been carried out yet
JustDecided == spc = "pvActions" /\ obs.rolls.drawn

\* the decisions, as a set
Decided == {decisions[i] : i \in 1..Len(decisions)}

\* like before comment before follow
DecisionRank(kind) ==
  CASE kind = "like" -> 1 [] kind = "comment" -> 2 [] kind = "follow" -> 3 [] OTHER -> 4

\* C13: decideAction holds 'like' iff the like draw is below likeChance,
\* 'comment' iff the comment draw is below commentChance, 'follow' iff the
\* follow draw is below followChance, each at most once and in this order,
\* and is the single decision 'next_video' iff none of the three fires; a
\* chance of 0 never fires and a chance of 1 always fires
C13_DecideActionFollowsDice ==
  JustDecided =>
    /\ ("like" \in Decided) <=> (obs.rolls.like < presets.likeChance)
    /\ ("comment" \in Decided) <=> (obs.rolls.comment < presets.commentChance)
    /\ ("follow" \in Decided) <=> (obs.rolls.follow < presets.followChance)
    /\ \A i, j \in 1..Len(decisions) :
         i < j => DecisionRank(decisions[i]) < DecisionRank(decisions[j])
    /\ ("next_video" \in Decided) <=> (Decided \cap {"like", "comment", "follow"} = {})
    /\ ("next_video" \in Decided) => decisions = <<"next_video">>
    /\ presets.likeChance = 0 => "like" \notin Decided
    /\ presets.likeChance = ChanceScale => "like" \in Decided
    /\ presets.commentChance = 0 => "comment" \notin Decided
    /\ presets.commentChance = ChanceScale => "comment" \in Decided
    /\ presets.followChance = 0 => "follow" \notin Decided
    /\ presets.followChance = ChanceScale => "follow" \in Decided

\* like and follow fire with a chance strictly between 0 and 1 and comment,
\* with chance 0, does not
C13_Witness ==
  /\ JustDecided
  /\ presets.likeChance \notin {0, ChanceScale}
  /\ presets.commentChance = 0
  /\ presets.followChance = ChanceScale
  /\ decisions = <<"like", "follow">>

----------------------------------------------------------------------------
(* Claims about a like-only session (SpecSession) *)

\* likeChance = 1, commentChance = 0, followChance = 0
LikeOnly ==
  /\ presets.likeChance = ChanceScale
  /\ presets.commentChance = 0
  /\ presets.followChance = 0

\* the feed never erred: the app was ready, no device command threw, no
\* cycle was cut short by a failed health check
FeedNeverErred ==
  /\ stats.errors = 0
  /\ obs.cyclesAborted = 0
  /\ obs.endCause # "notReady"
  /\ healthFailures = 0
  /\ ~healthFailureExceeded

\* C14: a like-only session with the like button learned, over a feed that
\* never errs and with a target of at least dailyLimit videos, returns after
\* exactly dailyLimit likes, one per video cycle, without comment or follow,
\* and with message "dailyLimitReached"; a like-only session never holds
\* more likes than dailyLimit
C14_LikeOnlySessionStopsAtDailyLimit ==
  /\ LikeOnly =>
       /\ stats.likesGiven <= presets.dailyLimit
       /\ stats.commentsPosted = 0
       /\ stats.followsGiven = 0
  /\ (/\ SessionReturned
      /\ LikeOnly
      /\ learnedUI["likeButton"] # 0
      /\ FeedNeverErred
      /\ sessionSize >= presets.dailyLimit) =>
       /\ result.likesGiven = presets.dailyLimit
       /\ result.videosWatched = presets.dailyLimit
       /\ result.commentsPosted = 0
       /\ result.followsGiven = 0
       /\ result.success
       /\ ~result.shouldContinue
       /\ result.message = "dailyLimitReached"

\* a like-only session over a feed that never erred has returned with
\* MaxDailyLimit likes, its target being that same number of videos
C14_Witness ==
  /\ SessionReturned
  /\ LikeOnly
  /\ learnedUI["likeButton"] # 0
  /\ FeedNeverErred
  /\ presets.dailyLimit = MaxDailyLimit
  /\ sessionSize = MaxDailyLimit
  /\ result.likesGiven = MaxDailyLimit

----------------------------------------------------------------------------
(* Claims about the comment text (SpecSanitize) *)

\* only lowercase letters and single spaces, none of them at either end
CleanText(t) ==
  /\ \A i \in 1..Len(t) : t[i] \in LowerLetters \cup {" "}
  /\ \A i \in 1..(Len(t) - 1) : ~(t[i] = " " /\ t[i + 1] = " ")
  /\ Len(t) > 0 => (t[1] # " " /\ t[Len(t)] # " ")

\* C15: on every path of executeComment the text typed into the device
\* holds only lowercase letters and single spaces, has no leading or trailing
\* whitespace and is no longer than comments.maxLength
C15_TypedTextCleanAndBounded ==
  comment.typed =>
    /\ CleanText(comment.text)
    /\ Len(comment.text) <= presets.commentMaxLength

----------------------------------------------------------------------------
(* Claims about assignProxiesToDevices (SpecProxy) *)

\* the device has an explicit deviceMappings entry
ExplicitlyMapped(d) == proxy.settings.deviceMappings[d] # 0

\* the number of unmapped devices before position i of the input
UnmappedBefore(i) ==
  Cardinality({j \in 1..(i - 1) : ~ExplicitlyMapped(proxy.deviceIds[j])})

\* C16: with proxies enabled and a non-empty pool every explicitly mapped
\* device gets its mapping and every other device, in input order, gets
\* pool[k mod |pool|], k counting the unmapped devices before it; a device
\* that was not passed gets nothing; with proxies disabled no device gets a
\* proxy
C16_RoundRobinSkipsMappedDevices ==
  proxy.assigned =>
    /\ ~proxy.settings.enabled => \A d \in ProxyDevices : proxy.assignments[d] = 0
    /\ (proxy.settings.enabled /\ Len(proxy.settings.pool) > 0) =>
         /\ \A i \in 1..Len(proxy.deviceIds) :
              LET d == proxy.deviceIds[i] IN
              proxy.assignments[d] =
                IF ExplicitlyMapped(d) THEN proxy.settings.deviceMappings[d]
                ELSE proxy.settings.pool[(UnmappedBefore(i) % Len(proxy.settings.pool)) + 1]
         /\ \A d \in ProxyDevices :
              (\A i \in 1..Len(proxy.deviceIds) : proxy.deviceIds[i] # d)
                => proxy.assignments[d] = 0

\* three devices of which the second is explicitly mapped, and a pool of two
\* different proxies: the first gets pool[0], the third pool[1]
C16_Witness ==
  /\ proxy.assigned
  /\ proxy.settings.enabled
  /\ proxy.deviceIds = <<1, 2, 3>>
  /\ proxy.settings.pool = <<1, 2>>
  /\ ExplicitlyMapped(2) /\ ~ExplicitlyMapped(1) /\ ~ExplicitlyMapped(3)
  /\ proxy.assignments = [d \in ProxyDevices |->
                            IF d = 1 THEN 1 ELSE IF d = 2 THEN MappedProxy ELSE 2]

----------------------------------------------------------------------------
(* Claims about the session loop of startAutomation (Spec) *)

\* C17: in one startAutomation run the number of sessions executed never
\* exceeds session.maxSessionsPerDay, whatever the sessions return
C17_SessionsWithinDailyCap == sessionCount <= presets.maxSessionsPerDay

\* startAutomation has ended, by returning or by throwing, after the session
\* loop was entered
LoopEnded == wpc \in {"done", "thrown"} /\ sessionCount > 0

\* C18: when startAutomation ends after the session loop was entered,
\* terminateApp has been issued since the app was last launched, on the
\* paths that return and on the paths that throw
C18_AppClosedWhenLoopEnds == LoopEnded => obs.closeIssued

\* C19: a session after the first starts only after a rest window, with the
\* app closed, and a successful relaunch since the previous session returned
C19_RestAndRelaunchBetweenSessions ==
  (wpc = "inSession" /\ sessionCount >= 2) => (obs.rested /\ obs.relaunched)

\* a hard setup failure has happened: the learning stage failed or threw, or
\* a session could not confirm that the app is ready
HardFailed == obs.hardFailure # "none"

\* C20: after a hard setup failure the Worker runs no further session and
\* makes no further learning attempt, and once the session loop is left its
\* stage is 'error'; a failed learning stage ends startAutomation at once;
\* the session result of a readiness failure has success = false and every
\* counter 0
C20_HardFailureIsFatal ==
  /\ []((HardFailed /\ wpc \in {"close", "done", "thrown"}) => currentStage = "error")
  /\ [](obs.hardFailure = "learning" => wpc = "thrown")
  /\ [](obs.hardFailure = "readiness" => wpc \in {"inSession", "close", "done", "thrown"})
  /\ [][HardFailed => (sessionCount' = sessionCount /\ learningRuns' = learningRuns)]_vars
  /\ []((SessionReturned /\ obs.endCause = "notReady") =>
          /\ ~result.success
          /\ result.videosWatched = 0
          /\ result.likesGiven = 0
          /\ result.commentsPosted = 0
          /\ result.followsGiven = 0)

\* startAutomation has returned in stage 'error' after the readiness check
\* of the second session failed
C20_Witness ==
  /\ obs.hardFailure = "readiness"
  /\ wpc = "done"
  /\ currentStage = "error"
  /\ sessionCount = 2
  /\ presets.maxSessionsPerDay = MaxSessionsCfg

----------------------------------------------------------------------------
(* Claims about Worker.shutdown (Spec) *)

\* shutdown has finished, by returning or by throwing
ShutdownFinished == shutdownPc # "notCalled"

\* shutdown has issued this device command
ShutdownHasIssued(command) ==
  \E i \in 1..Len(obs.shutdownIssued) : obs.shutdownIssued[i] = command

\* C21: when shutdown finishes, on every path, a failing terminate, recents
\* or home command included, the clearing of a configured proxy has been
\* issued and the worker is uninitialized, so that getHealthStatus reports
\* not healthy
C21_ShutdownClearsProxyAndState ==
  ShutdownFinished =>
    /\ wproxy.configured => ShutdownHasIssued("clearProxy")
    /\ ~isInitialized
    /\ ~GetHealthStatus

----------------------------------------------------------------------------
(* Claims about the video cycle (SpecSession) *)

\* the loop of execute() was left because of the consecutive-error threshold
StoppedByErrors == obs.endCause = "errors"

\* C22: the consecutive-error count grows only with a cycle that failed, so
\* a session stopped by the maxConsecutiveErrors threshold has seen at least
\* that many errors: one failed action followed by error-free cycles does
\* not stop the session
C22_ErrorStopNeedsConsecutiveFailures ==
  StoppedByErrors => stats.errors >= presets.maxConsecutiveErrors

\* the decided actions are in the order like, comment, follow
DecisionsInOrder ==
  \A i, j \in 1..Len(decisions) :
    i < j => DecisionRank(decisions[i]) < DecisionRank(decisions[j])

\* C23: the decided actions of a cycle are carried out in the order like,
\* comment, follow, one at a time; a failing action adds 1 to the error
\* counter and leaves the remaining decided actions to be attempted; the
\* action phase is left only for the scroll, once every decided action has
\* been attempted, and after the scroll videosWatched grows by 1
C23_ActionsIndependentWithinCycle ==
  /\ [](DecisionsInOrder)
  /\ [][spc = "pvActions" =>
          /\ spc' \in {"pvActions", "pvEnd"}
          /\ spc' = "pvActions" => (decisions # <<>> /\ decisions' = Tail(decisions))
          /\ spc' = "pvEnd" => (decisions = <<>> /\ decisions' = <<>>)
          /\ stats'.errors \in {stats.errors, stats.errors + 1}
          /\ stats'.videosWatched = stats.videosWatched]_vars
  /\ [][spc = "pvEnd" =>
          (spc' = "loopCheck" /\ stats'.videosWatched = stats.videosWatched + 1)]_vars

\* in the first cycle a like or comment failed and the follow decided with
\* it was carried out after the failure; the scroll is next
C23_Witness ==
  /\ spc = "pvActions"
  /\ decisions = <<>>
  /\ obs.cyclesStarted = 1
  /\ stats.videosWatched = 0
  /\ stats.errors = 1
  /\ stats.followsGiven = 1

\* the session was aborted by a periodic health check
AbortedByHealth == obs.endCause = "health"

\* C24: a periodic health check that brings the failure count to
\* maxHealthFailures aborts the session at once: processVideo returns false
\* with the flag set, and from then on no shadow-ban check, action or scroll
\* runs, videosWatched keeps its value, which counts the completed cycles
\* only, and no further cycle starts
C24_HealthAbortIsImmediate ==
  /\ [][(spc = "pvHealth" /\ healthFailures' >= presets.maxHealthFailures) =>
          /\ spc' = "loopCheck"
          /\ ~pvResult'
          /\ healthFailureExceeded'
          /\ obs'.endCause = "health"]_vars
  /\ [](AbortedByHealth =>
          /\ spc \in {"loopCheck", "finish", "returned"}
          /\ stats.videosWatched = obs.cyclesStarted - obs.cyclesAborted
          /\ healthFailureExceeded)
  /\ [][AbortedByHealth =>
          /\ stats' = stats
          /\ decisions' = decisions
          /\ obs'.cyclesStarted = obs.cyclesStarted \/ obs'.endCause = "none"
          /\ obs'.shadowDelays = obs.shadowDelays \/ obs'.endCause = "none"]_vars

\* the second cycle was aborted by its health check, the count having just
\* reached maxHealthFailures = MaxHealthFailuresCfg, and the session has
\* returned with one video watched
C24_Witness ==
  /\ SessionReturned
  /\ AbortedByHealth
  /\ presets.maxHealthFailures = MaxHealthFailuresCfg
  /\ healthFailures = MaxHealthFailuresCfg
  /\ obs.cyclesStarted = 2
  /\ result.videosWatched = 1
  /\ result.message = "healthFailureExceeded"

\* C25: the health check triggered by a failed comment verification never
\* makes the session fail: a session that no periodic health check aborted
\* does not return the failure "healthFailureExceeded"
C25_CommentCheckNeverFailsSession ==
  (SessionReturned /\ ~AbortedByHealth) =>
     result.message # "healthFailureExceeded"

\* C26: shadow-ban detection is advisory: the recovery delay is inserted
\* only with at least SHADOW_BAN_MIN_LIKES likes, and the check, whatever
\* the agent answers, leaves the statistics, shouldContinue, the health flag
\* and the result alone and hands the cycle on to its actions and scroll
C26_ShadowBanIsAdvisory ==
  [][spc = "pvShadow" =>
       /\ obs'.shadowDelays # obs.shadowDelays =>
              stats.likesGiven >= SHADOW_BAN_MIN_LIKES
       /\ spc' = "pvDecide"
       /\ UNCHANGED <<stats, shouldContinue, healthFailures, healthFailureExceeded,
                      pvResult, result, consecutiveErrors>>]_vars

\* a shadow ban was detected, its delay inserted, the cycle of that check ran
\* to its end and the session reached its target with success
C26_Witness ==
  /\ SessionReturned
  /\ obs.shadowDelays > 0
  /\ obs.endCause = "target"
  /\ result.success
  /\ result.shouldContinue
  /\ result.likesGiven >= SHADOW_BAN_MIN_LIKES
  /\ result.videosWatched = sessionSize

\* the commands of a scrollToNextVideo call in which every attempt was judged
\* unchanged and nothing threw
ScrollCommands ==
  <<Command("getScreenSize"), Command("takeScreenshot"),
    Swipe(70, 30, 300), Command("takeScreenshot"),
    Swipe(85, 15, 200), Command("takeScreenshot"),
    Swipe(85, 15, 200), Command("takeScreenshot"),
    Command("navigateBack"), Swipe(85, 15, 200)>>

\* the first n commands of ScrollCommands
ScrollPrefix(n) == SubSeq(ScrollCommands, 1, n)

\* every verdict before the last one was "unchanged"
AllUnchangedBeforeLast(judged) == \A i \in 1..(Len(judged) - 1) : ~judged[i]

\* C27: scrollToNextVideo issues a prefix of: one size query, one
\* before-screenshot, at most 3 swipes each followed by an after-screenshot
\* (70%->30% in 300 ms, then 85%->15% in 200 ms), one back press, one more
\* swipe; it returns true at the first attempt judged changed, or after the
\* back press and the last swipe when all 3 were judged unchanged; it returns
\* false only after a throwing device command, counted as one error; and
\* processVideo goes on to count the video whatever was returned
C27_ScrollIsBoundedBestEffort ==
  /\ Len(scroll.log) <= Len(ScrollCommands)
  /\ scroll.log = ScrollPrefix(Len(scroll.log))
  /\ Len(scroll.judged) <= maxRetries + 1
  /\ AllUnchangedBeforeLast(scroll.judged)
  /\ scroll.pc \notin {"returned", "idle"} => \A i \in 1..Len(scroll.judged) : ~scroll.judged[i]
  /\ scroll.result = "true" =>
        /\ ~scroll.threw
        /\ stats.errors = 0
        /\ IF scroll.judged[Len(scroll.judged)]
           THEN scroll.log = ScrollPrefix(2 + 2 * Len(scroll.judged))
           ELSE Len(scroll.judged) = maxRetries + 1 /\ scroll.log = ScrollCommands
  /\ scroll.result = "false" => (scroll.threw /\ stats.errors = 1)
  /\ scroll.pc = "returned" => scroll.result \in {"true", "false"}
  /\ spc \in {"pvEnd", "loopCheck"} => scroll.pc = "returned"
  /\ spc = "loopCheck" => stats.videosWatched = 1

\* the first two attempts were judged unchanged, the third changed: three
\* swipes, four screenshots, no back press, true returned, the video counted
C27_Witness ==
  /\ scroll.result = "true"
  /\ scroll.judged = <<FALSE, FALSE, TRUE>>
  /\ Len(scroll.log) = 8
  /\ spc = "loopCheck"
  /\ stats.videosWatched = 1

\* the steps with which a cycle began start with the search-topic flow
BeganWithSearch(began) == began # <<>> /\ Head(began) = "searchForTopic"

\* a cycle has begun and its first steps are on record
CycleBegun == obs.topic.watch /\ obs.cyclesStarted > 0

\* C28: a cycle begins with the search-topic flow exactly when a topic is
\* configured and a health check reported recovery actions since the
\* previous cycle began; the flow then comes first, before the watch, and
\* the checks and actions of the cycle come after both; one re-search
\* clears the request, so the following cycle begins without one unless a
\* new recovery happened
C28_TopicReSearchOncePerRecovery ==
  /\ [][(spc = "pvBegin" /\ spc' # "pvBegin") =>
          /\ BeganWithSearch(obs'.topic.began) =
                (obs.topic.recovered /\ presets.searchTopic)
          /\ ~obs'.topic.recovered
          /\ presets.searchTopic => ~needsTopicReSearch']_vars
  /\ [](CycleBegun =>
          /\ obs.topic.began \in {<<>>, <<"watchVideo">>, <<"searchForTopic">>,
                                   <<"searchForTopic", "watchVideo">>}
          /\ presets.searchTopic => (needsTopicReSearch = obs.topic.recovered))
  /\ [][spc # "pvBegin" => obs'.topic.began = obs.topic.began]_vars

\* the health check of the second cycle performed recovery actions, and the
\* third cycle began with the search-topic flow, then the watch
C28_Witness ==
  /\ obs.topic.began = <<"searchForTopic", "watchVideo">>
  /\ obs.cyclesStarted = 3
  /\ presets.searchTopic
  /\ ~needsTopicReSearch
  /\ spc = "pvHealth"

\* the four counters of a statistics record
Counters == {"videosWatched", "likesGiven", "commentsPosted", "followsGiven"}

\* execute() has returned and runWorkingSession has not yet added the result
ResultPending == wpc = "inSession" /\ spc = "returned"

\* C29: the Worker's cumulative counters equal the sum of the counters
\* returned by all sessions so far (the result of a session that has just
\* returned is added by the next step of runWorkingSession), whatever the
\* sessions' outcomes; no step makes a cumulative counter smaller; and a new
\* session starts with all its own counters at 0
C29_CumulativeStatsAreTheSum ==
  /\ [](\A f \in Counters :
          wstats[f] + (IF ResultPending THEN result[f] ELSE 0) = obs.returnedTotal[f])
  /\ [][\A f \in Counters : wstats'[f] >= wstats[f]]_vars
  /\ [][(spc = "idle" /\ spc' # "idle") => stats' = ZeroStats]_vars

\* two sessions have returned counters, a relearn after a health failure in
\* between, and the cumulative counters hold more than the last session gave
C29_Witness ==
  /\ sessionCount = 2
  /\ wpc = "close"
  /\ learningRuns >= 2
  /\ wstats.videosWatched >= 2
  /\ wstats.likesGiven >= 1
  /\ obs.returnedTotal.videosWatched = wstats.videosWatched

\* a learning run has just been accepted
LearningJustAccepted == wpc \in {"learn", "relearn"} /\ wpc' = "loopTop"

\* C30: learned UI is replaced as a whole: after an accepted learning run
\* every slot of the Worker's learned-UI set is absent or was produced by
\* that run, and the entry the run has written holds that same set; and no
\* step of a running session changes the learned-UI set
C30_LearnedUIReplacedAsAWhole ==
  /\ [][LearningJustAccepted =>
          /\ \A s \in Slots : learnedUI'[s] \in {0, learningRuns'}
          /\ store'[Self] # store[Self] =>
                (store'[Self].present /\ store'[Self].learnedUI = learnedUI')]_vars
  /\ [][SessionRunning => learnedUI' = learnedUI]_vars

----------------------------------------------------------------------------
(* Claims about the daily cap across sessions (SpecDaily) *)

\* the most actions one video cycle performs: a like, a comment and a follow
MaxCycleActions == 3

\* C31: the Worker enforces the daily cap on its accumulated counters: no
\* session starts once the accumulated likes+comments+follows has reached
\* dailyLimit, and the accumulated total never exceeds dailyLimit by more
\* than the actions of one video cycle
C31_DailyCapAcrossSessions ==
  /\ [][(wpc = "loopTop" /\ wpc' = "inSession") => Total(wstats) < presets.dailyLimit]_vars
  /\ [](Total(wstats) <= presets.dailyLimit + MaxCycleActions)

----------------------------------------------------------------------------
(* Claims about the ScreenAgent call (SpecInteract) *)

\* C32: every interactWithScreen call eventually settles for its caller: it
\* returns the finish_task value or throws, in every run, also when the step
\* budget is used up without a finish_task call
C32_AgentCallSettles == <>(interact.caller \in {"returned", "thrown"})

----------------------------------------------------------------------------
(* Claims about the start-up of the bot (SpecBot) *)

\* start-up has ended: it failed, or it reached monitorWorkers
BotStartupEnded == bot.pc \in {"failed", "monitoring"}

\* C33: devices are isolated at start-up: whatever fails for one device,
\* the creation of a Worker is attempted for every discovered device and
\* the agent manager of every Worker created is started; start-up fails
\* only when no Worker was created or no agent manager started
C33_DevicesIsolatedAtStartup ==
  /\ bot.pc # "createWorkers" => bot.attempted = DevicesOf(bot.devices)
  /\ BotStartupEnded /\ bot.workers # {} => bot.started = bot.workers
  /\ bot.pc = "failed" => bot.workers = {} \/ bot.agentManagers = {}
  /\ bot.pc = "monitoring" => bot.agentManagers # {}

\* the first device fails, the second and the third get their Worker and
\* their agent manager, and start-up reaches monitorWorkers
C33_Witness ==
  /\ bot.pc = "monitoring"
  /\ Len(bot.devices) >= 2
  /\ bot.devices[1] \notin bot.workers
  /\ bot.workers \ bot.agentManagers # {}
  /\ bot.agentManagers # {}

----------------------------------------------------------------------------
(* Claims about executeLike, executeComment and executeFollow (SpecActs) *)

\* the call of this kind has returned
Returned(kind) == act.pc = "idle" /\ act.kind = kind

\* the command was issued at position i of the call's commands
IssuedAt(i, cmd) == i \in 1..Len(act.cmds) /\ act.cmds[i].cmd = cmd

\* the command was issued and returned at position i
DoneAt(i, cmd) == IssuedAt(i, cmd) /\ act.cmds[i].ok

\* C34: executeComment closes what it opened: when it returns after a
\* comment-button tap that opened the panel, a back navigation was issued
\* after that tap
C34_CommentPanelClosed ==
  Returned("comment") =>
    \A i \in 1..Len(act.cmds) :
      DoneAt(i, "tap commentButton") =>
        \E j \in (i + 1)..Len(act.cmds) : IssuedAt(j, "navigateBack")

\* C35: executeFollow restores the feed: when it returns, a back navigation
\* was attempted after the profile-opening swipe if the swipe was issued, and
\* no back navigation was issued if the swipe never was
C35_FollowRestoresFeed ==
  Returned("follow") =>
    /\ \A i \in 1..Len(act.cmds) :
         IssuedAt(i, "swipeScreen") =>
           \E j \in (i + 1)..Len(act.cmds) : IssuedAt(j, "navigateBack")
    /\ (\A i \in 1..Len(act.cmds) : ~IssuedAt(i, "swipeScreen")) =>
         \A j \in 1..Len(act.cmds) : ~IssuedAt(j, "navigateBack")

\* the coordinates each action needs
CoordinatesOf(kind) ==
  CASE kind = "like" -> {"likeButton"}
    [] kind = "follow" -> {"followButton"}
    [] OTHER -> {"commentButton", "commentInputField", "commentSendButton"}

\* the learned-UI set lacks a coordinate of the action
Lacks(kind) == \E s \in CoordinatesOf(kind) : learnedUI[s] = 0

\* processVideo calls the method of an action whose coordinates are lacking
CalledWithout ==
  /\ spc = "pvActions" /\ act.pc = "idle" /\ decisions # <<>>
  /\ Head(decisions) \in {"like", "comment", "follow"}
  /\ Lacks(Head(decisions))

\* after the step, the call's commands hold this command, returned
DoneNext(cmd) == \E i \in 1..Len(act'.cmds) : act'.cmds[i] = [cmd |-> cmd, ok |-> TRUE]

\* C38: an action whose coordinates are missing is a no-op failure for that
\* action only: the call issues no device command, returns false, leaves
\* every counter, the cycle and the session as they were, and the cycle is
\* still counted; each of the three counters increases only in a call that
\* had its coordinates and whose taps have returned
C38_MissingCoordinatesNoOp ==
  /\ [](act.kind # "none" /\ Lacks(act.kind) =>
          act.cmds = <<>> /\ act.pc = "idle" /\ ~act.ret)
  /\ [](spc = "loopCheck" => stats.videosWatched = 1)
  /\ [][CalledWithout =>
          /\ stats' = stats /\ spc' = spc /\ decisions' = Tail(decisions)
          /\ pvResult' = pvResult /\ shouldContinue' = shouldContinue
          /\ healthFailureExceeded' = healthFailureExceeded]_vars
  /\ [][stats'.likesGiven # stats.likesGiven =>
          /\ stats'.likesGiven = stats.likesGiven + 1
          /\ act'.kind = "like" /\ ~Lacks("like") /\ DoneNext("tap likeButton")]_vars
  /\ [][stats'.commentsPosted # stats.commentsPosted =>
          /\ stats'.commentsPosted = stats.commentsPosted + 1
          /\ act'.kind = "comment" /\ ~Lacks("comment")
          /\ DoneNext("tap commentButton") /\ DoneNext("tap commentInputField")
          /\ DoneNext("inputText") /\ DoneNext("tap commentSendButton")]_vars
  /\ [][stats'.followsGiven # stats.followsGiven =>
          /\ stats'.followsGiven = stats.followsGiven + 1
          /\ act'.kind = "follow" /\ ~Lacks("follow")
          /\ DoneNext("swipeScreen") /\ DoneNext("tap followButton")]_vars

\* the like button is missing: the like was a no-op, the comment of the same
\* cycle was posted, the follow was a no-op too, and the cycle was counted
C38_Witness ==
  /\ spc = "loopCheck"
  /\ Returned("follow") /\ act.missing
  /\ Lacks("like")
  /\ stats.likesGiven = 0 /\ stats.commentsPosted = 1 /\ stats.followsGiven = 0
  /\ stats.videosWatched = 1

----------------------------------------------------------------------------
(* Claims about the partition of the UI store by device id (SpecPartition) *)

\* C36: the store is partitioned by device id: a save, a load or a delete
\* for one device id leaves the stored entry of every other device id as it
\* was, also when the document cannot be read or parsed during the call
C36_OtherDevicesUntouched ==
  [][\A d \in Devices \ {Self} : store'[d] = store[d]]_vars

----------------------------------------------------------------------------
(* Claims about the daily limit within one session (SpecSession) *)

\* C37: in every session no video cycle begins while
\* likes + comments + follows >= dailyLimit, and the total never exceeds
\* dailyLimit + 2, in the counters and in the result returned
C37_DailyLimitWithinSession ==
  /\ spc = "pvBegin" =>
       stats.likesGiven + stats.commentsPosted + stats.followsGiven < presets.dailyLimit
  /\ stats.likesGiven + stats.commentsPosted + stats.followsGiven <= presets.dailyLimit + 2
  /\ SessionReturned =>
       result.likesGiven + result.commentsPosted + result.followsGiven
         <= presets.dailyLimit + 2

\* a session one action short of the limit after its first cycle, stopped
\* by the limit after a second cycle with a like, a comment and a follow
C37_Witness ==
  /\ SessionReturned
  /\ result.message = "dailyLimitReached"
  /\ stats.videosWatched = 2
  /\ stats.likesGiven + stats.commentsPosted + stats.followsGiven = presets.dailyLimit + 2

====
